---- MODULE Spec2Model ----
(***************************************************************************)
(* arxivql: the Query expression builder (arxivql/_query.py) and the       *)
(* ArticleId parser / reconstructor (arxivql/_utils.py).                   *)
(*                                                                         *)
(* A Python str is a sequence of one-character strings.  An exception is   *)
(* an outcome record whose err field names the error kind; every error of  *)
(* the library is a ValueError, told apart by its message.                 *)
(***************************************************************************)
EXTENDS Integers, Sequences, FiniteSets, TLC

VARIABLES
    pool,        \* the Query objects alive, in creation order
    last,        \* the last Query operation: operands and outcome
    call,        \* from_field: the arguments of the call
    ret,         \* from_field: the outcome of the call
    article_id,  \* ArticleId.from_id: the raw argument
    parsed,      \* ArticleId.from_id: the outcome
    rebuilt,     \* ArticleId._reconstruct_id and id: the outcomes
    date_args,   \* Query.submitted_date: the arguments of the call
    date_ret,    \* Query.submitted_date: the outcome
    heap,        \* the Query objects several callers share
    callers      \* each concurrent caller: its call in progress, its outcome

vars ==
    <<pool, last, call, ret, article_id, parsed, rebuilt, date_args, date_ret,
      heap, callers>>

(***************************************************************************)
(* Bounds of the model.                                                    *)
(***************************************************************************)
MaxQueries == 3
MaxItems == 2
MaxTermLen == 3
MaxPad == 1
MaxStampLen == 15
MaxCalls == 2

(***************************************************************************)
(* Strings.                                                                *)
(***************************************************************************)
Whitespace == {" ", "\t", "\n"}
Forbidden == {"\"", ")", "("}
Digits == {"0", "1", "2", "3", "4", "5", "6", "7", "8", "9"}

NoString == <<>>

\* All sequences over S of length at most n.
SeqsUpTo(S, n) == UNION {[1..k -> S] : k \in 0..n}

\* sep.join(strs)
RECURSIVE join(_, _)
join(sep, strs) ==
    IF strs = <<>> THEN <<>>
    ELSE IF Len(strs) = 1 THEN strs[1]
    ELSE strs[1] \o sep \o join(sep, Tail(strs))

\* len(value.split()): the number of maximal runs of non-whitespace.
split_len(value) ==
    Cardinality({i \in 1..Len(value) :
        /\ value[i] \notin Whitespace
        /\ (i = 1 \/ value[i - 1] \in Whitespace)})

\* str(n) of an int.
RECURSIVE str_nat(_)
str_nat(n) ==
    LET d == <<"0", "1", "2", "3", "4", "5", "6", "7", "8", "9">>[(n % 10) + 1]
    IN IF n < 10 THEN <<d>> ELSE Append(str_nat(n \div 10), d)

str_int(n) == IF n < 0 THEN <<"-">> \o str_nat(-n) ELSE str_nat(n)

\* The archives of Taxonomy: each class, by its attribute name, with the
\* string its metaclass StringableMeta(s) gives it.
Taxonomy ==
    [cs |-> <<"c", "s", ".", "*">>,
     econ |-> <<"e", "c", "o", "n", ".", "*">>,
     eess |-> <<"e", "e", "s", "s", ".", "*">>,
     math |-> <<"m", "a", "t", "h", ".", "*">>,
     q_bio |-> <<"q", "-", "b", "i", "o", ".", "*">>,
     q_fin |-> <<"q", "-", "f", "i", "n", ".", "*">>,
     stat |-> <<"s", "t", "a", "t", ".", "*">>,
     astro_ph |-> <<"a", "s", "t", "r", "o", "-", "p", "h", ".", "*">>,
     cond_mat |-> <<"c", "o", "n", "d", "-", "m", "a", "t", ".", "*">>,
     nlin |-> <<"n", "l", "i", "n", ".", "*">>,
     physics |-> <<"p", "h", "y", "s", "i", "c", "s", ".", "*">>]

\* A term is Stringable: a str, an int, or an archive class of Taxonomy
\* (s then holds the attribute name of the class).
StrTerm(s) == [t |-> "str", s |-> s, n |-> 0]
IntTerm(n) == [t |-> "int", s |-> NoString, n |-> n]
ArchiveTerm(name) == [t |-> "archive", s |-> <<name>>, n |-> 0]

\* str(term)
str(term) ==
    IF term.t = "int" THEN str_int(term.n)
    ELSE IF term.t = "archive" THEN Taxonomy[term.s[1]]
    ELSE term.s

(***************************************************************************)
(* Query.                                                                  *)
(***************************************************************************)
Query(content, negated) == [content |-> content, negated |-> negated]

NoQuery == [content |-> NoString, negated |-> FALSE]

\* The outcome of a call that returns a Query or raises.
Returned(q) == [err |-> "none", query |-> q]
Raised(e) == [err |-> e, query |-> NoQuery]

\* The outcome of a call that returns a str or raises.
ReturnedStr(s) == [err |-> "none", text |-> s]
RaisedStr(e) == [err |-> e, text |-> NoString]

\* Fault: negation is never rejected.
_validate_negation_never_raises(self) == "none"

_validate_negation(self) ==
    IF self.negated THEN "StandaloneNegation" ELSE "none"

\* Fault: the multi-term check runs before the forbidden-character check.
_validate_term_multi_first(term, quote) ==
    LET value == str(term)
    IN IF split_len(value) > 1 /\ ~quote
       THEN [err |-> "UnquotableMultiTerm", value |-> NoString]
       ELSE IF \E i \in 1..Len(value) : value[i] \in Forbidden
       THEN [err |-> "ForbiddenCharacter", value |-> NoString]
       ELSE IF split_len(value) > 1
       THEN [err |-> "none", value |-> <<"\"">> \o value \o <<"\"">>]
       ELSE [err |-> "none", value |-> value]

\* Fault: any whitespace, not only whitespace between tokens, counts as
\* multi-term.
_validate_term_any_whitespace(term, quote) ==
    LET value == str(term)
    IN IF \E i \in 1..Len(value) : value[i] \in Forbidden
       THEN [err |-> "ForbiddenCharacter", value |-> NoString]
       ELSE IF \E i \in 1..Len(value) : value[i] \in Whitespace
       THEN IF quote
            THEN [err |-> "none", value |-> <<"\"">> \o value \o <<"\"">>]
            ELSE [err |-> "UnquotableMultiTerm", value |-> NoString]
       ELSE [err |-> "none", value |-> value]

_validate_term(term, quote) ==
    LET value == str(term)
    IN IF \E i \in 1..Len(value) : value[i] \in Forbidden
       THEN [err |-> "ForbiddenCharacter", value |-> NoString]
       ELSE IF split_len(value) > 1
       THEN IF quote
            THEN [err |-> "none", value |-> <<"\"">> \o value \o <<"\"">>]
            ELSE [err |-> "UnquotableMultiTerm", value |-> NoString]
       ELSE [err |-> "none", value |-> value]

\* A field value: a scalar (items holds the one term), a list or a tuple.
Scalar(term) == [kind |-> "scalar", items |-> <<term>>]
List(items) == [kind |-> "list", items |-> items]
Tuple(items) == [kind |-> "tuple", items |-> items]

\* [cls._validate_term(term, quote) for term in value]: the terms in order,
\* or the error of the first term that raises.
validate_terms(items, quote) ==
    LET each == [i \in 1..Len(items) |-> _validate_term(items[i], quote)]
        bad == {i \in 1..Len(items) : each[i].err # "none"}
    IN IF bad = {}
       THEN [err |-> "none", terms |-> [i \in 1..Len(items) |-> each[i].value]]
       ELSE [err |-> each[CHOOSE i \in bad : \A j \in bad : i <= j].err,
             terms |-> <<>>]

\* Fault: a list is joined like a tuple.
from_field_list_as_tuple(value, prefix, quote) ==
    LET v == validate_terms(value.items, quote)
    IN IF v.err # "none" THEN Raised(v.err)
       ELSE IF value.kind \in {"list", "tuple"}
       THEN Returned(Query(prefix \o <<":", "(">>
                           \o join(<<" ", "A", "N", "D", " ">>, v.terms)
                           \o <<")">>, FALSE))
       ELSE Returned(Query(prefix \o <<":">> \o v.terms[1], FALSE))

\* Fault: a scalar is wrapped in parentheses like a one-element list.
from_field_scalar_parenthesized(value, prefix, quote) ==
    LET v == validate_terms(value.items, quote)
    IN IF v.err # "none" THEN Raised(v.err)
       ELSE IF value.kind = "tuple"
       THEN Returned(Query(prefix \o <<":", "(">>
                           \o join(<<" ", "A", "N", "D", " ">>, v.terms)
                           \o <<")">>, FALSE))
       ELSE Returned(Query(prefix \o <<":", "(">> \o join(<<" ">>, v.terms)
                           \o <<")">>, FALSE))

from_field(value, prefix, quote) ==
    LET v == validate_terms(value.items, quote)
    IN IF v.err # "none" THEN Raised(v.err)
       ELSE IF value.kind = "list"
       THEN Returned(Query(prefix \o <<":", "(">> \o join(<<" ">>, v.terms)
                           \o <<")">>, FALSE))
       ELSE IF value.kind = "tuple"
       THEN Returned(Query(prefix \o <<":", "(">>
                           \o join(<<" ", "A", "N", "D", " ">>, v.terms)
                           \o <<")">>, FALSE))
       ELSE Returned(Query(prefix \o <<":">> \o v.terms[1], FALSE))

from_raw_string(raw) == Query(<<"(">> \o raw \o <<")">>, FALSE)

\* Fault: category quotes like the other fields.
category_quotable(value) == from_field(value, <<"c", "a", "t">>, TRUE)

\* The named field constructors.
category(value) == from_field(value, <<"c", "a", "t">>, FALSE)
title(value) == from_field(value, <<"t", "i">>, TRUE)
author(value) == from_field(value, <<"a", "u">>, TRUE)
abstract(value) == from_field(value, <<"a", "b", "s">>, TRUE)
comment(value) == from_field(value, <<"c", "o">>, TRUE)
journal(value) == from_field(value, <<"j", "r">>, TRUE)
report(value) == from_field(value, <<"r", "n">>, TRUE)
id(value) == from_field(value, <<"i", "d">>, TRUE)
all(value) == from_field(value, <<"a", "l", "l">>, TRUE)

Constructors ==
    {"category", "title", "author", "abstract", "comment", "journal",
     "report", "id", "all"}

construct(name, value) ==
    CASE name = "category" -> category(value)
      [] name = "title" -> title(value)
      [] name = "author" -> author(value)
      [] name = "abstract" -> abstract(value)
      [] name = "comment" -> comment(value)
      [] name = "journal" -> journal(value)
      [] name = "report" -> report(value)
      [] name = "id" -> id(value)
      [] name = "all" -> all(value)

\* Fault: Query.id gives no warning.
warnings_of_none(name) == <<>>

\* The messages a named constructor passes to warnings.warn before it
\* calls from_field: Query.id warns once, the others never.
warnings_of(name) ==
    IF name = "id"
    THEN <<"deprecation warning: use id_list in query instead">>
    ELSE <<>>

\* The right operand of & and |, or the left operand of the reflected
\* operators: a str or a Query.
StrArg(raw) == [isstr |-> TRUE, raw |-> raw, query |-> NoQuery]
QueryArg(q) == [isstr |-> FALSE, raw |-> NoString, query |-> q]

\* Fault: the operand's negation is ignored.
and_ignoring_negation(self, other) ==
    IF _validate_negation(self) # "none" THEN Raised(_validate_negation(self))
    ELSE LET o == IF other.isstr THEN from_raw_string(other.raw)
                  ELSE other.query
         IN Returned(Query(<<"(">> \o self.content \o <<" ", "A", "N", "D", " ">>
                           \o o.content \o <<")">>, FALSE))

\* Fault: the conjunction inherits the negation of its right operand.
and_keeping_negation(self, other) ==
    IF _validate_negation(self) # "none" THEN Raised(_validate_negation(self))
    ELSE LET o == IF other.isstr THEN from_raw_string(other.raw)
                  ELSE other.query
             operator == IF o.negated
                         THEN <<"A", "N", "D", "N", "O", "T">>
                         ELSE <<"A", "N", "D">>
         IN Returned(Query(<<"(">> \o self.content \o <<" ">> \o operator
                           \o <<" ">> \o o.content \o <<")">>, o.negated))

__and__(self, other) ==
    IF _validate_negation(self) # "none" THEN Raised(_validate_negation(self))
    ELSE LET o == IF other.isstr THEN from_raw_string(other.raw)
                  ELSE other.query
             operator == IF o.negated
                         THEN <<"A", "N", "D", "N", "O", "T">>
                         ELSE <<"A", "N", "D">>
         IN Returned(Query(<<"(">> \o self.content \o <<" ">> \o operator
                           \o <<" ">> \o o.content \o <<")">>, FALSE))

\* Fault: a negated operand is accepted.
or_accepting_negated(self, other) ==
    IF _validate_negation(self) # "none" THEN Raised(_validate_negation(self))
    ELSE LET o == IF other.isstr THEN from_raw_string(other.raw)
                  ELSE other.query
         IN Returned(Query(<<"(">> \o self.content \o <<" ", "O", "R", " ">>
                           \o o.content \o <<")">>, FALSE))

\* Fault: the operand is examined before self.
or_checking_other_first(self, other) ==
    LET o == IF other.isstr THEN from_raw_string(other.raw) ELSE other.query
    IN IF o.negated THEN Raised("NoOrNot")
       ELSE IF _validate_negation(self) # "none"
       THEN Raised(_validate_negation(self))
       ELSE Returned(Query(<<"(">> \o self.content \o <<" ", "O", "R", " ">>
                           \o o.content \o <<")">>, FALSE))

\* Fault: the disjunction is not parenthesized.
or_without_parentheses(self, other) ==
    IF _validate_negation(self) # "none" THEN Raised(_validate_negation(self))
    ELSE LET o == IF other.isstr THEN from_raw_string(other.raw)
                  ELSE other.query
         IN IF o.negated THEN Raised("NoOrNot")
            ELSE Returned(Query(self.content \o <<" ", "O", "R", " ">>
                                \o o.content, FALSE))

__or__(self, other) ==
    IF _validate_negation(self) # "none" THEN Raised(_validate_negation(self))
    ELSE LET o == IF other.isstr THEN from_raw_string(other.raw)
                  ELSE other.query
         IN IF o.negated THEN Raised("NoOrNot")
            ELSE Returned(Query(<<"(">> \o self.content
                                \o <<" ", "O", "R", " ">>
                                \o o.content \o <<")">>, FALSE))

\* other & self and other | self, reached when other is not a Query.
__rand__(self, other) ==
    IF other.isstr THEN __and__(from_raw_string(other.raw), QueryArg(self))
    ELSE Raised("TypeError")

__ror__(self, other) ==
    IF other.isstr THEN __or__(from_raw_string(other.raw), QueryArg(self))
    ELSE Raised("TypeError")

\* Fault: negation sets the flag instead of flipping it.
invert_setting_flag(self) == Query(self.content, TRUE)

__invert__(self) == Query(self.content, ~self.negated)

to_string(self) ==
    IF _validate_negation(self) # "none"
    THEN RaisedStr(_validate_negation(self))
    ELSE ReturnedStr(self.content)

__str__(self) == to_string(self)

(***************************************************************************)
(* The Query algebra: callers build Query objects and combine them.        *)
(***************************************************************************)
a_b == <<"a", " ", "b">>

AtomConstructors == {"title", "category"}
AtomValues == {Scalar(StrTerm(<<"a">>)), Scalar(StrTerm(a_b))}
RawStrings == {<<"x", " ", "y">>}

Op(op, left, right, raw, err, query, text) ==
    [op |-> op, left |-> left, right |-> right, raw |-> raw, err |-> err,
     query |-> query, text |-> text]

IdleQuery ==
    /\ pool = <<>>
    /\ last = Op("init", 0, 0, NoString, "none", NoQuery, NoString)

IdleField ==
    /\ call = [name |-> "none", value |-> Scalar(StrTerm(NoString)),
               prefix |-> NoString, quote |-> FALSE]
    /\ ret = [done |-> FALSE, err |-> "none", query |-> NoQuery,
              warned |-> <<>>]

\* Fault: the combinator clears the negated flag of its right operand in
\* place once it has rendered it.
Produce_clearing_right_operand(op, left, right, raw, r) ==
    /\ Len(pool) < MaxQueries
    /\ pool' = IF r.err # "none" THEN pool
               ELSE IF right = 0 THEN Append(pool, r.query)
               ELSE Append([pool EXCEPT ![right].negated = FALSE], r.query)
    /\ last' = Op(op, left, right, raw, r.err, r.query, NoString)

\* A call that returns a new Query object or raises: the object joins the
\* pool, and no object of the pool is written.
Produce(op, left, right, raw, r) ==
    /\ Len(pool) < MaxQueries
    /\ pool' = IF r.err = "none" THEN Append(pool, r.query) ELSE pool
    /\ last' = Op(op, left, right, raw, r.err, r.query, NoString)

Construct ==
    \E name \in AtomConstructors, value \in AtomValues :
        /\ Produce(name, 0, 0, NoString, construct(name, value))
        /\ UNCHANGED <<call, ret, article_id, parsed, rebuilt,
                 date_args, date_ret, heap, callers>>

And ==
    \E i \in DOMAIN pool, j \in DOMAIN pool :
        /\ Produce("and", i, j, NoString, __and__(pool[i], QueryArg(pool[j])))
        /\ UNCHANGED <<call, ret, article_id, parsed, rebuilt,
                 date_args, date_ret, heap, callers>>

Or ==
    \E i \in DOMAIN pool, j \in DOMAIN pool :
        /\ Produce("or", i, j, NoString, __or__(pool[i], QueryArg(pool[j])))
        /\ UNCHANGED <<call, ret, article_id, parsed, rebuilt,
                 date_args, date_ret, heap, callers>>

AndStr ==
    \E i \in DOMAIN pool, raw \in RawStrings :
        /\ Produce("and_str", i, 0, raw, __and__(pool[i], StrArg(raw)))
        /\ UNCHANGED <<call, ret, article_id, parsed, rebuilt,
                 date_args, date_ret, heap, callers>>

OrStr ==
    \E i \in DOMAIN pool, raw \in RawStrings :
        /\ Produce("or_str", i, 0, raw, __or__(pool[i], StrArg(raw)))
        /\ UNCHANGED <<call, ret, article_id, parsed, rebuilt,
                 date_args, date_ret, heap, callers>>

RAnd ==
    \E i \in DOMAIN pool, raw \in RawStrings :
        /\ Produce("rand", 0, i, raw, __rand__(pool[i], StrArg(raw)))
        /\ UNCHANGED <<call, ret, article_id, parsed, rebuilt,
                 date_args, date_ret, heap, callers>>

ROr ==
    \E i \in DOMAIN pool, raw \in RawStrings :
        /\ Produce("ror", 0, i, raw, __ror__(pool[i], StrArg(raw)))
        /\ UNCHANGED <<call, ret, article_id, parsed, rebuilt,
                 date_args, date_ret, heap, callers>>

Invert ==
    \E i \in DOMAIN pool :
        /\ Produce("invert", i, 0, NoString, Returned(__invert__(pool[i])))
        /\ UNCHANGED <<call, ret, article_id, parsed, rebuilt,
                 date_args, date_ret, heap, callers>>

Finalize(op, i, r) ==
    /\ pool' = pool
    /\ last' = Op(op, i, 0, NoString, r.err, NoQuery, r.text)

CallToString ==
    \E i \in DOMAIN pool :
        /\ Finalize("to_string", i, to_string(pool[i]))
        /\ UNCHANGED <<call, ret, article_id, parsed, rebuilt,
                 date_args, date_ret, heap, callers>>

CallStr ==
    \E i \in DOMAIN pool :
        /\ Finalize("str", i, __str__(pool[i]))
        /\ UNCHANGED <<call, ret, article_id, parsed, rebuilt,
                 date_args, date_ret, heap, callers>>

(***************************************************************************)
(* ArticleId.                                                              *)
(***************************************************************************)
Letters ==
    {"a", "b", "c", "d", "e", "f", "g", "h", "i", "j", "k", "l", "m", "n",
     "o", "p", "q", "r", "s", "t", "u", "v", "w", "x", "y", "z", "A", "B",
     "C", "D", "E", "F", "G", "H", "I", "J", "K", "L", "M", "N", "O", "P",
     "Q", "R", "S", "T", "U", "V", "W", "X", "Y", "Z"}

\* The characters the class [\w.-] matches.
CategoryChars == Letters \cup Digits \cup {"_", ".", "-"}

\* Optional[...]: None, or a value.
None == [some |-> FALSE, val |-> 0]
NoneStr == [some |-> FALSE, val |-> NoString]
Some(v) == [some |-> TRUE, val |-> v]

Min(S) == CHOOSE x \in S : \A y \in S : x <= y
Max(S) == CHOOSE x \in S : \A y \in S : x >= y

\* Fault: only leading whitespace is removed.
strip_leading_only(s) ==
    IF \A i \in 1..Len(s) : s[i] \in Whitespace THEN <<>>
    ELSE SubSeq(s, CHOOSE i \in 1..Len(s) :
                       /\ s[i] \notin Whitespace
                       /\ \A j \in 1..(i - 1) : s[j] \in Whitespace,
                Len(s))

\* s.strip()
strip(s) ==
    LET keep == {i \in 1..Len(s) : s[i] \notin Whitespace}
    IN IF keep = {} THEN <<>> ELSE SubSeq(s, Min(keep), Max(keep))

\* int(s) of a string of ASCII digits.
RECURSIVE int(_)
int(s) ==
    LET v == CHOOSE d \in 0..9 : str_nat(d) = <<s[Len(s)]>>
    IN IF Len(s) = 1 THEN v ELSE 10 * int(SubSeq(s, 1, Len(s) - 1)) + v

AllDigits(s) == \A i \in 1..Len(s) : s[i] \in Digits

\* f"{n:0{width}d}" of a non-negative int: zero-padded, never cut.
zero_pad(n, width) ==
    LET s == str_nat(n)
    IN IF Len(s) >= width THEN s
       ELSE [i \in 1..(width - Len(s)) |-> "0"] \o s

\* The outcome of a parsing step: the fields, or the ValueError with the
\* message's fixed part (msg) and the string it carries.
InvalidIdentifier(msg, carried) ==
    [err |-> "InvalidIdentifier", msg |-> msg, carried |-> carried,
     year |-> 0, month |-> 0, number |-> 0, archive |-> NoneStr,
     subject |-> NoneStr]

Fields(year, month, number, archive, subject) ==
    [err |-> "none", msg |-> "none", carried |-> NoString,
     year |-> year, month |-> month, number |-> number, archive |-> archive,
     subject |-> subject]

\* Fault: a sequence number of any width is accepted.
_parse_post0704_identifier_any_width(identifier) ==
    IF ~ /\ Len(identifier) >= 6
         /\ AllDigits(SubSeq(identifier, 1, 4))
         /\ identifier[5] = "."
         /\ AllDigits(SubSeq(identifier, 6, Len(identifier)))
    THEN InvalidIdentifier("new-style", identifier)
    ELSE IF int(SubSeq(identifier, 3, 4)) \notin 1..12
    THEN InvalidIdentifier("month", identifier)
    ELSE Fields(2000 + int(SubSeq(identifier, 1, 2)),
                int(SubSeq(identifier, 3, 4)),
                int(SubSeq(identifier, 6, Len(identifier))), NoneStr, NoneStr)

\* Fault: the month of a new-style identifier is not range-checked.
_parse_post0704_identifier_any_month(identifier) ==
    IF ~ /\ Len(identifier) \in {9, 10}
         /\ AllDigits(SubSeq(identifier, 1, 4))
         /\ identifier[5] = "."
         /\ AllDigits(SubSeq(identifier, 6, Len(identifier)))
    THEN InvalidIdentifier("new-style", identifier)
    ELSE Fields(2000 + int(SubSeq(identifier, 1, 2)),
                int(SubSeq(identifier, 3, 4)),
                int(SubSeq(identifier, 6, Len(identifier))), NoneStr, NoneStr)

_parse_post0704_identifier(identifier) ==
    IF ~ /\ Len(identifier) \in {9, 10}
         /\ AllDigits(SubSeq(identifier, 1, 4))
         /\ identifier[5] = "."
         /\ AllDigits(SubSeq(identifier, 6, Len(identifier)))
    THEN InvalidIdentifier("new-style", identifier)
    ELSE LET yy == int(SubSeq(identifier, 1, 2))
             mm == int(SubSeq(identifier, 3, 4))
             seq == SubSeq(identifier, 6, Len(identifier))
         IN IF ~(1 <= mm /\ mm <= 12)
            THEN InvalidIdentifier("month", identifier)
            ELSE Fields(2000 + yy, mm, int(seq), NoneStr, NoneStr)

\* Fault: every two-digit year is read as 20YY.
_parse_pre0704_identifier_2000s(identifier) ==
    LET n == Len(identifier)
    IN IF ~ /\ n >= 9
            /\ AllDigits(SubSeq(identifier, n - 6, n))
            /\ identifier[n - 7] = "/"
            /\ \A i \in 1..(n - 8) : identifier[i] \in CategoryChars
       THEN InvalidIdentifier("legacy", identifier)
       ELSE LET category_ == SubSeq(identifier, 1, n - 8)
                numeric == SubSeq(identifier, n - 6, n)
                mm == int(SubSeq(numeric, 3, 4))
                year == 2000 + int(SubSeq(numeric, 1, 2))
                number == int(SubSeq(numeric, 5, 7))
                dots == {i \in 1..Len(category_) : category_[i] = "."}
            IN IF ~(1 <= mm /\ mm <= 12)
               THEN InvalidIdentifier("month", identifier)
               ELSE IF dots # {}
               THEN Fields(year, mm, number,
                           Some(SubSeq(category_, 1, Min(dots) - 1)),
                           Some(SubSeq(category_, Min(dots) + 1,
                                       Len(category_))))
               ELSE Fields(year, mm, number, Some(category_), NoneStr)

_parse_pre0704_identifier(identifier) ==
    LET n == Len(identifier)
    IN IF ~ /\ n >= 9
            /\ AllDigits(SubSeq(identifier, n - 6, n))
            /\ identifier[n - 7] = "/"
            /\ \A i \in 1..(n - 8) : identifier[i] \in CategoryChars
       THEN InvalidIdentifier("legacy", identifier)
       ELSE LET category_ == SubSeq(identifier, 1, n - 8)
                numeric == SubSeq(identifier, n - 6, n)
                yy == int(SubSeq(numeric, 1, 2))
                mm == int(SubSeq(numeric, 3, 4))
                year == IF yy >= 90 THEN 1900 + yy ELSE 2000 + yy
                number == int(SubSeq(numeric, 5, 7))
                dots == {i \in 1..Len(category_) : category_[i] = "."}
            IN IF ~(1 <= mm /\ mm <= 12)
               THEN InvalidIdentifier("month", identifier)
               ELSE IF dots # {}
               THEN Fields(year, mm, number,
                           Some(SubSeq(category_, 1, Min(dots) - 1)),
                           Some(SubSeq(category_, Min(dots) + 1,
                                       Len(category_))))
               ELSE Fields(year, mm, number, Some(category_), NoneStr)

\* v[0-9]+
IsVersion(s) == Len(s) >= 2 /\ s[1] = "v" /\ AllDigits(Tail(s))

\* Fault: the id group is greedy, so a version suffix is never split off.
IdLengths_greedy(s) ==
    {k \in 1..Len(s) : k = Len(s) /\ \A i \in 1..k : s[i] # "\n"}

\* The match of ^(?P<id>.+?)(?P<version>v[0-9]+)?$ : the lengths the id
\* group can have; the lazy quantifier takes the least.  "." matches no
\* line break.
IdLengths(s) ==
    {k \in 1..Len(s) :
        /\ \A i \in 1..k : s[i] # "\n"
        /\ \/ k = Len(s)
           \/ IsVersion(SubSeq(s, k + 1, Len(s)))}

\* The outcome of from_id: the ArticleId, or the ValueError.
NoArticleId(e) ==
    [err |-> e.err, msg |-> e.msg, carried |-> e.carried,
     base_id |-> NoString, version |-> None, year |-> 0, month |-> 0,
     number |-> 0, prefix |-> NoneStr, archive |-> NoneStr,
     subject |-> NoneStr]

ArticleId(base_id, version, year, month, number, prefix, archive, subject) ==
    [err |-> "none", msg |-> "none", carried |-> NoString,
     base_id |-> base_id, version |-> version, year |-> year,
     month |-> month, number |-> number, prefix |-> prefix,
     archive |-> archive, subject |-> subject]

\* Fault: the version-splitting error carries the stripped input.
from_id_format_error_stripped(raw) ==
    LET s0 == strip(raw)
        colons == {i \in 1..Len(s0) : s0[i] = ":"}
        prefix == IF colons # {} THEN Some(SubSeq(s0, 1, Min(colons) - 1))
                  ELSE NoneStr
        s == IF colons # {} THEN strip(SubSeq(s0, Min(colons) + 1, Len(s0)))
             ELSE s0
    IN IF IdLengths(s) = {}
       THEN NoArticleId(InvalidIdentifier("format", s0))
       ELSE LET k == Min(IdLengths(s))
                base_id == SubSeq(s, 1, k)
                version == IF k < Len(s)
                           THEN Some(int(SubSeq(s, k + 2, Len(s))))
                           ELSE None
                f == IF \E i \in 1..Len(base_id) : base_id[i] = "/"
                     THEN _parse_pre0704_identifier(base_id)
                     ELSE _parse_post0704_identifier(base_id)
            IN IF f.err # "none" THEN NoArticleId(f)
               ELSE ArticleId(base_id, version, f.year, f.month, f.number,
                              prefix, f.archive, f.subject)

from_id(raw) ==
    LET s0 == strip(raw)
        colons == {i \in 1..Len(s0) : s0[i] = ":"}
        prefix == IF colons # {} THEN Some(SubSeq(s0, 1, Min(colons) - 1))
                  ELSE NoneStr
        s == IF colons # {} THEN strip(SubSeq(s0, Min(colons) + 1, Len(s0)))
             ELSE s0
    IN IF IdLengths(s) = {}
       THEN NoArticleId(InvalidIdentifier("format", raw))
       ELSE LET k == Min(IdLengths(s))
                base_id == SubSeq(s, 1, k)
                version == IF k < Len(s)
                           THEN Some(int(SubSeq(s, k + 2, Len(s))))
                           ELSE None
                f == IF \E i \in 1..Len(base_id) : base_id[i] = "/"
                     THEN _parse_pre0704_identifier(base_id)
                     ELSE _parse_post0704_identifier(base_id)
            IN IF f.err # "none" THEN NoArticleId(f)
               ELSE ArticleId(base_id, version, f.year, f.month, f.number,
                              prefix, f.archive, f.subject)

\* Fault: the sequence number is always five digits wide.
_reconstruct_post0704_base_id_width5(self) ==
    zero_pad(self.year % 100, 2) \o zero_pad(self.month, 2) \o <<".">>
    \o zero_pad(self.number, 5)

\* Fault: the five-digit width starts a year late.
_reconstruct_post0704_base_id_from_2016(self) ==
    zero_pad(self.year % 100, 2) \o zero_pad(self.month, 2) \o <<".">>
    \o zero_pad(self.number, IF self.year <= 2015 THEN 4 ELSE 5)

_reconstruct_post0704_base_id(self) ==
    LET yy == self.year % 100
        mm == self.month
        number_width == IF self.year < 2015 THEN 4 ELSE 5
    IN zero_pad(yy, 2) \o zero_pad(mm, 2) \o <<".">>
       \o zero_pad(self.number, number_width)

_reconstruct_pre0704_base_id(self) ==
    LET yy == self.year % 100
        mm == self.month
        numeric == zero_pad(yy, 2) \o zero_pad(mm, 2)
                   \o zero_pad(self.number, 3)
        category_ == IF self.subject.some
                     THEN self.archive.val \o <<".">> \o self.subject.val
                     ELSE self.archive.val
    IN category_ \o <<"/">> \o numeric

_reconstruct_id(self) ==
    LET base_id == IF ~self.archive.some
                   THEN _reconstruct_post0704_base_id(self)
                   ELSE _reconstruct_pre0704_base_id(self)
        prefix == IF self.prefix.some THEN self.prefix.val \o <<":">>
                  ELSE <<>>
        version == IF self.version.some
                   THEN <<"v">> \o str_int(self.version.val)
                   ELSE <<>>
    IN prefix \o base_id \o version

\* Fault: the id property leaves the version out.
ArticleId_id_without_version(self) ==
    IF self.prefix.some THEN self.prefix.val \o <<":">> \o self.base_id
    ELSE self.base_id

\* The id property.
ArticleId_id(self) ==
    LET prefix == IF self.prefix.some THEN self.prefix.val \o <<":">>
                  ELSE <<>>
        version == IF self.version.some
                   THEN <<"v">> \o str_int(self.version.val)
                   ELSE <<>>
    IN prefix \o self.base_id \o version

(***************************************************************************)
(* Query.submitted_date: one call with a start and an end bound.           *)
(***************************************************************************)
\* The values a bound can be given as: None, a date, a datetime (naive, or
\* aware with a UTC offset in minutes), a str, or a value of another type.
NoneBound ==
    [type |-> "None", year |-> 0, month |-> 0, day |-> 0, hour |-> 0,
     minute |-> 0, second |-> 0, utcoffset |-> None, text |-> NoString]

date(year, month, day) ==
    [NoneBound EXCEPT !.type = "date", !.year = year, !.month = month,
                      !.day = day]

datetime(year, month, day, hour, minute, second, utcoffset) ==
    [NoneBound EXCEPT !.type = "datetime", !.year = year, !.month = month,
                      !.day = day, !.hour = hour, !.minute = minute,
                      !.second = second, !.utcoffset = utcoffset]

StrBound(text) == [NoneBound EXCEPT !.type = "str", !.text = text]

IntBound == [NoneBound EXCEPT !.type = "int"]

\* The proleptic Gregorian calendar of the datetime module.
is_leap(year) == year % 4 = 0 /\ (year % 100 # 0 \/ year % 400 = 0)

days_in_month(year, month) ==
    IF month = 2 THEN (IF is_leap(year) THEN 29 ELSE 28)
    ELSE IF month \in {4, 6, 9, 11} THEN 30
    ELSE 31

\* The datetime constructor's range checks: years 1 to 9999, a day of the
\* month, hours to 23, minutes and seconds to 59.
ValidDateTime(year, month, day, hour, minute, second) ==
    /\ year \in 1..9999
    /\ month \in 1..12
    /\ day \in 1..days_in_month(year, month)
    /\ hour \in 0..23
    /\ minute \in 0..59
    /\ second \in 0..59

\* The outcome of a formatting step: the text, or the exception.
Formatted(text) == [err |-> "none", msg |-> "none", text |-> text]

FormatError(err, msg) == [err |-> err, msg |-> msg, text |-> NoString]

\* d.astimezone(timezone.utc) of an aware datetime: the same instant with
\* offset zero, a day earlier or later where the offset crosses midnight;
\* OverflowError where that leaves the years 1 to 9999.
astimezone_utc(d) ==
    LET total == d.hour * 60 + d.minute - d.utcoffset.val
        shift == total \div 1440
        minutes == total % 1440
        last_day == days_in_month(d.year, d.month)
        later == IF d.day < last_day THEN <<d.year, d.month, d.day + 1>>
                 ELSE IF d.month < 12 THEN <<d.year, d.month + 1, 1>>
                 ELSE <<d.year + 1, 1, 1>>
        earlier == IF d.day > 1 THEN <<d.year, d.month, d.day - 1>>
                   ELSE IF d.month > 1
                   THEN <<d.year, d.month - 1,
                          days_in_month(d.year, d.month - 1)>>
                   ELSE <<d.year - 1, 12, 31>>
        ymd == IF shift = 0 THEN <<d.year, d.month, d.day>>
               ELSE IF shift > 0 THEN later
               ELSE earlier
    IN IF ymd[1] \notin 1..9999
       THEN [err |-> "OverflowError", value |-> d]
       ELSE [err |-> "none",
             value |-> datetime(ymd[1], ymd[2], ymd[3], minutes \div 60,
                                minutes % 60, d.second, Some(0))]

\* strftime's %Y: four digits from year 1000 on; below that the C library
\* decides whether the year is zero-padded (glibc does not pad).
strftime_Y(year, padded) ==
    IF padded THEN zero_pad(year, 4) ELSE str_nat(year)

\* d.strftime("%Y%m%d")
strftime_Ymd(d, padded) ==
    strftime_Y(d.year, padded) \o zero_pad(d.month, 2) \o zero_pad(d.day, 2)

\* d.strftime("%Y%m%d%H%M")
strftime_YmdHM(d, padded) ==
    strftime_Ymd(d, padded) \o zero_pad(d.hour, 2) \o zero_pad(d.minute, 2)

\* The format _validate_arxiv_datetime_string picks for a length, as the
\* sequence of its directives.
FormatFor(length) ==
    IF length <= 4 THEN <<"Y">>
    ELSE IF length <= 6 THEN <<"Y", "m">>
    ELSE IF length <= 8 THEN <<"Y", "m", "d">>
    ELSE IF length <= 10 THEN <<"Y", "m", "d", "H">>
    ELSE IF length <= 12 THEN <<"Y", "m", "d", "H", "M">>
    ELSE <<"Y", "m", "d", "H", "M", "S">>

\* strptime's pattern of a directive other than %Y: its two-digit
\* alternatives come first and read a number of the first range, its
\* one-digit alternative comes last and reads one of the second
\* (%m is 1[0-2]|0[1-9]|[1-9], %d is 3[0-1]|[1-2]\d|0[1-9]|[1-9],
\* %H is 2[0-3]|[0-1]\d|\d, %M is [0-5]\d|\d, %S is 6[0-1]|[0-5]\d|\d).
TwoDigits ==
    [m |-> 1..12, d |-> 1..31, H |-> 0..23, M |-> 0..59, S |-> 0..61]

OneDigit ==
    [m |-> 1..9, d |-> 1..9, H |-> 0..9, M |-> 0..9, S |-> 0..9]

NoMatch == [found |-> FALSE, values |-> <<>>, end |-> 0]

\* The regular-expression match of the directives against s from position
\* pos, as the backtracking matcher finds it: for each directive the
\* first alternative with which the rest of the pattern also matches.
\* end is the position after the match.
RECURSIVE regex_match(_, _, _)
regex_match(s, pos, directives) ==
    IF directives = <<>>
    THEN [found |-> TRUE, values |-> <<>>, end |-> pos]
    ELSE LET x == Head(directives)
             wide == IF x = "Y" THEN 4 ELSE 2
             fits(width) ==
                 /\ pos + width - 1 <= Len(s)
                 /\ AllDigits(SubSeq(s, pos, pos + width - 1))
                 /\ \/ x = "Y"
                    \/ /\ width = 2
                       /\ int(SubSeq(s, pos, pos + 1)) \in TwoDigits[x]
                    \/ /\ width = 1
                       /\ int(SubSeq(s, pos, pos)) \in OneDigit[x]
             take(width) ==
                 LET rest == regex_match(s, pos + width, Tail(directives))
                 IN IF fits(width) /\ rest.found
                    THEN [found |-> TRUE,
                          values |->
                              <<int(SubSeq(s, pos, pos + width - 1))>>
                                  \o rest.values,
                          end |-> rest.end]
                    ELSE NoMatch
             first == take(wide)
         IN IF first.found THEN first
            ELSE IF x # "Y" THEN take(1)
            ELSE NoMatch

\* datetime.strptime(d, fmt) succeeds: the pattern matches at the start,
\* no data remains after the match, and the fields read (month and day 1,
\* time 0 where the format has none) make a datetime.
strptime_ok(s, directives) ==
    LET match == regex_match(s, 1, directives)
        field(i, default) ==
            IF i <= Len(match.values) THEN match.values[i] ELSE default
    IN /\ match.found
       /\ match.end = Len(s) + 1
       /\ ValidDateTime(field(1, 1), field(2, 1), field(3, 1), field(4, 0),
                        field(5, 0), field(6, 0))

\* Fault: the accepted string is completed with zeros to twelve digits.
_validate_arxiv_datetime_string_completing(d) ==
    IF ~(AllDigits(d) /\ Len(d) >= 4 /\ Len(d) <= 14)
    THEN FormatError("InvalidDateString", "digit-only")
    ELSE IF ~strptime_ok(d, FormatFor(Len(d)))
    THEN FormatError("InvalidDateString", "not-valid")
    ELSE Formatted(SubSeq(d \o [i \in 1..12 |-> "0"], 1, 12))

_validate_arxiv_datetime_string(d) ==
    IF ~(AllDigits(d) /\ Len(d) >= 4 /\ Len(d) <= 14)
    THEN FormatError("InvalidDateString", "digit-only")
    ELSE IF ~strptime_ok(d, FormatFor(Len(d)))
    THEN FormatError("InvalidDateString", "not-valid")
    ELSE Formatted(d)

\* The inner function format_date of submitted_date.
format_date(d, padded) ==
    IF d.type = "datetime"
    THEN IF d.utcoffset.some
         THEN LET utc == astimezone_utc(d)
              IN IF utc.err # "none" THEN FormatError(utc.err, "none")
                 ELSE Formatted(strftime_YmdHM(utc.value, padded))
         ELSE Formatted(strftime_YmdHM(d, padded))
    ELSE IF d.type = "date"
    THEN Formatted(strftime_Ymd(d, padded) \o <<"0", "0", "0", "0">>)
    ELSE IF d.type = "str" THEN _validate_arxiv_datetime_string(d.text)
    ELSE FormatError("UnsupportedType", "only-accepts")

DefaultStart == <<"1", "0", "0", "0", "0", "1", "0", "1", "0", "0", "0", "0">>
DefaultEnd == <<"9", "0", "0", "0", "0", "1", "0", "1", "0", "0", "0", "0">>

\* The outcome of submitted_date: the Query, or the exception of the
\* first bound that fails.
DateRaised(e) == [err |-> e.err, msg |-> e.msg, query |-> NoQuery]

DateReturned(q) == [err |-> "none", msg |-> "none", query |-> q]

submitted_date(start, end, padded) ==
    LET start_str == IF start.type # "None" THEN format_date(start, padded)
                     ELSE Formatted(DefaultStart)
        end_str == IF end.type # "None" THEN format_date(end, padded)
                   ELSE Formatted(DefaultEnd)
    IN IF start_str.err # "none" THEN DateRaised(start_str)
       ELSE IF end_str.err # "none" THEN DateRaised(end_str)
       ELSE DateReturned(Query(<<"s", "u", "b", "m", "i", "t", "t", "e", "d", "D", "a", "t", "e", ":", "[">> \o start_str.text
                               \o <<" ", "T", "O", " ">> \o end_str.text
                               \o <<"]">>, FALSE))

(***************************************************************************)
(* Field construction: one call of from_field or of a named constructor.   *)
(***************************************************************************)
ScalarTerms ==
    LET TermAlphabet == {"a", " ", "\t", "\"", "(", ")"}
    IN  {StrTerm(s) : s \in SeqsUpTo(TermAlphabet, MaxTermLen)}
            \cup {IntTerm(n) : n \in {7, 42, -1}}
            \cup {ArchiveTerm(name) : name \in DOMAIN Taxonomy}

ItemTerms ==
    {StrTerm(<<"a">>), StrTerm(a_b), StrTerm(<<"b", " ">>), StrTerm(<<"(">>),
     StrTerm(<<"a", " ", "\"">>), IntTerm(42)}

FieldValues ==
    {Scalar(term) : term \in ScalarTerms}
        \cup {List(items) : items \in SeqsUpTo(ItemTerms, MaxItems)}
        \cup {Tuple(items) : items \in SeqsUpTo(ItemTerms, MaxItems)}

FieldCalls ==
    LET FieldPrefixes == {<<"a", "l", "l">>, <<"x">>}
    IN  [name : {"from_field"}, value : FieldValues, prefix : FieldPrefixes,
         quote : BOOLEAN]
            \cup [name : Constructors, value : FieldValues, prefix : {NoString},
                  quote : {FALSE}]

NoReturn ==
    [done |-> FALSE, err |-> "none", query |-> NoQuery, warned |-> <<>>]

\* The outcome of a call, with the messages it passed to warnings.warn.
Return(r, warned) ==
    [done |-> TRUE, err |-> r.err, query |-> r.query, warned |-> warned]

CallFromField ==
    /\ call.name = "from_field"
    /\ ~ret.done
    /\ ret' = Return(from_field(call.value, call.prefix, call.quote), <<>>)
    /\ UNCHANGED <<pool, last, call, article_id, parsed, rebuilt,
                 date_args, date_ret, heap, callers>>

CallConstructor ==
    /\ call.name \in Constructors
    /\ ~ret.done
    /\ ret' = Return(construct(call.name, call.value), warnings_of(call.name))
    /\ UNCHANGED <<pool, last, call, article_id, parsed, rebuilt,
                 date_args, date_ret, heap, callers>>

(***************************************************************************)
(* Identifier parsing: one call of from_id, then of _reconstruct_id and    *)
(* of the id property on the record it returned.                           *)
(***************************************************************************)
Spaces(n) == [i \in 1..n |-> " "]

Pads == {Spaces(n) : n \in 0..MaxPad}

InputPrefixes == {<<"a", "r", "X", "i", "v">>, <<>>}

YYs == {<<"1", "4">>, <<"1", "5">>, <<"9", "1">>}
MMs == {<<"0", "0">>, <<"0", "1">>, <<"1", "2">>, <<"1", "3">>}
Categories ==
    {<<"c", "s">>, <<"m", "a", "t", "h", ".", "G", "T">>,
     <<"s", "o", "l", "v", "-", "i", "n", "t">>, <<"a", ".", "b", ".", "c">>,
     <<>>}
VersionSuffixes ==
    {<<>>, <<"v", "1">>, <<"v", "1", "2">>, <<"v", "0", "2">>, <<"v", "0">>,
     <<"v">>, <<"v", "1", "v", "2">>}

ModernBodies ==
    LET Sequences4or5 ==
            {<<"0", "0", "0", "1">>, <<"8", "7", "7", "0">>,
             <<"0", "0", "0", "0", "1">>, <<"1", "2", "3", "4", "5">>,
             <<"1", "2", "3">>, <<"1", "2", "3", "4", "5", "6">>}
    IN  {yy \o mm \o <<".">> \o n : yy \in YYs, mm \in MMs, n \in Sequences4or5}

LegacyBodies ==
    LET Sequences3 == {<<"0", "0", "1">>, <<"8", "2">>}
    IN  {c \o <<"/">> \o yy \o mm \o n :
            c \in Categories, yy \in YYs, mm \in MMs, n \in Sequences3}

MalformedBodies ==
    {<<>>, <<"1", "8", "0", "5", "1", "2", "3", "4", "5">>,
     <<"c", "s", " ", "/", "0", "4", "1", "1", "0", "5", "2">>,
     <<"c", "s", "/", "x", "/", "0", "4", "1", "1", "0", "5", "2">>,
     <<"x", ":", "1", "8", "0", "5", ".", "1", "2", "3", "4", "5">>}

Bodies ==
    {b \o v : b \in ModernBodies \cup LegacyBodies \cup MalformedBodies,
              v \in VersionSuffixes}

ArticleIdInputs ==
    {l \o b \o r : l \in Pads, b \in Bodies, r \in Pads}
        \cup {l \o p \o <<":">> \o m \o b \o r :
                l \in Pads, p \in InputPrefixes, m \in Pads, b \in Bodies,
                r \in Pads}

NotParsed == [done |-> FALSE, result |-> NoArticleId(Fields(0, 0, 0, NoneStr, NoneStr))]

NotRebuilt == [reconstructed |-> NoneStr, id |-> NoneStr]

IdleId ==
    /\ article_id = NoString
    /\ parsed = NotParsed
    /\ rebuilt = NotRebuilt

CallFromId ==
    /\ article_id \in ArticleIdInputs
    /\ ~parsed.done
    /\ parsed' = [done |-> TRUE, result |-> from_id(article_id)]
    /\ UNCHANGED <<pool, last, call, ret, article_id, rebuilt,
                 date_args, date_ret, heap, callers>>

CallReconstructId ==
    /\ parsed.done
    /\ parsed.result.err = "none"
    /\ ~rebuilt.reconstructed.some
    /\ rebuilt' = [rebuilt EXCEPT
                     !.reconstructed = Some(_reconstruct_id(parsed.result))]
    /\ UNCHANGED <<pool, last, call, ret, article_id, parsed,
                 date_args, date_ret, heap, callers>>

GetId ==
    /\ parsed.done
    /\ parsed.result.err = "none"
    /\ ~rebuilt.id.some
    /\ rebuilt' = [rebuilt EXCEPT !.id = Some(ArticleId_id(parsed.result))]
    /\ UNCHANGED <<pool, last, call, ret, article_id, parsed,
                 date_args, date_ret, heap, callers>>

(***************************************************************************)
(* Date ranges among the Query objects of the algebra.                     *)
(***************************************************************************)
AtomDates ==
    {[start |-> date(2024, 1, 1), end |-> NoneBound]}

\* A caller builds a date range; it joins the pool like any other Query.
SubmittedDate ==
    \E d \in AtomDates, padded \in BOOLEAN :
        /\ Produce("submitted_date", 0, 0, NoString,
                   submitted_date(d.start, d.end, padded))
        /\ UNCHANGED <<call, ret, article_id, parsed, rebuilt,
                       date_args, date_ret, heap, callers>>

(***************************************************************************)
(* Date ranges: one call of submitted_date.                                *)
(***************************************************************************)
\* The dates that exist: February 29 in leap years only.
Dates ==
    LET DateYears == {1, 999, 1000, 2023, 2024, 9999}
        MonthDays == {<<1, 1>>, <<2, 28>>, <<2, 29>>, <<3, 1>>, <<12, 31>>}
    IN  {date(p[1], p[2][1], p[2][2]) :
            p \in {q \in DateYears \X MonthDays :
                      q[2][2] <= days_in_month(q[1], q[2][1])}}

DateTimes ==
    LET UtcOffsets == {None, Some(0), Some(540), Some(-300)}
    IN  {datetime(d.year, d.month, d.day, H, M, S, tz) :
            d \in Dates, H \in {0, 5, 23}, M \in {0, 59}, S \in {0, 59},
            tz \in UtcOffsets}

\* Date parts that a time of day follows; two of them have seven digits.
StampDates ==
    {<<"2", "0", "2", "3", "0", "1", "0", "1">>,
     <<"2", "0", "2", "4", "0", "2", "2", "9">>,
     <<"2", "0", "2", "3", "1", "3", "0">>,
     <<"2", "0", "2", "3", "0", "1", "1">>}

NonDigitStamps ==
    {<<" ", "2", "0", "2", "3">>, <<"2", "0", "2", "3", " ">>,
     <<"2", "0", "2", "3", "-", "0", "1">>, <<"2", "0", "2", "3", "a">>,
     <<"a", "b", "c", "d">>, <<"+", "2", "0", "2", "3">>,
     <<"2", "0", "2", "3", "0", "1", "0", "1", "T", "0", "0", "0">>}

LongStamps ==
    LET StampYears ==
            {<<"2", "0", "2", "3">>, <<"2", "0", "2", "4">>,
             <<"0", "0", "0", "0">>}
        StampMonths ==
            {<<"0", "0">>, <<"0", "1">>, <<"0", "2">>, <<"0", "4">>, <<"1", "2">>,
             <<"1", "3">>}
        StampDays ==
            {<<"0", "0">>, <<"0", "1">>, <<"2", "9">>, <<"3", "0">>, <<"3", "1">>,
             <<"3", "2">>}
        StampHours ==
            {<<"0", "0">>, <<"2", "3">>, <<"2", "4">>}
        StampMinutes ==
            {<<"0", "0">>, <<"5", "9">>, <<"6", "0">>}
        StampSeconds ==
            {<<"0", "0">>, <<"5", "9">>, <<"6", "0">>}
    IN  {y \o m \o d : y \in StampYears, m \in StampMonths, d \in StampDays}
            \cup {p \o h \o m \o s \o <<"9", "9">> :
                     p \in StampDates, h \in StampHours, m \in StampMinutes,
                     s \in StampSeconds}

\* Every prefix of a long stamp, up to MaxStampLen characters.
Stamps ==
    UNION {{SubSeq(f, 1, n) : n \in 0..Min({Len(f), MaxStampLen})} :
              f \in LongStamps}
        \cup NonDigitStamps

Bounds ==
    {NoneBound, IntBound} \cup Dates \cup DateTimes
        \cup {StrBound(s) : s \in Stamps}

OtherBounds ==
    {NoneBound, IntBound, date(2024, 1, 1),
     datetime(2023, 1, 1, 5, 0, 0, Some(540)),
     StrBound(<<"2", "0", "2", "3">>), StrBound(<<"2", "0", "2", "3", "1", "3", "0", "1">>)}

DateCalls ==
    [start : Bounds, end : OtherBounds] \cup [start : OtherBounds, end : Bounds]

NoDateReturn ==
    [done |-> FALSE, err |-> "none", msg |-> "none", query |-> NoQuery]

DateReturn(r) ==
    [done |-> TRUE, err |-> r.err, msg |-> r.msg, query |-> r.query]

IdleDate ==
    /\ date_args = [start |-> NoneBound, end |-> NoneBound]
    /\ date_ret = NoDateReturn

CallSubmittedDate ==
    /\ ~date_ret.done
    /\ date_args \in DateCalls
    /\ \E padded \in BOOLEAN :
           date_ret' = DateReturn(submitted_date(date_args.start,
                                                 date_args.end, padded))
    /\ UNCHANGED <<pool, last, call, ret, article_id, parsed, rebuilt,
                   date_args, heap, callers>>

(***************************************************************************)
(* Concurrent callers over shared Query objects.  A call runs as the      *)
(* sequence of its attribute reads; the reads of different callers         *)
(* interleave.                                                             *)
(***************************************************************************)
Callers == {"c1", "c2"}

Outcome(err, query, text) == [err |-> err, query |-> query, text |-> text]

NoOutcome == Outcome("none", NoQuery, NoString)

Caller(pc, op, name, value, self, other, raw) ==
    [pc |-> pc, op |-> op, name |-> name, value |-> value, self |-> self,
     other |-> other, raw |-> raw, self_negated |-> FALSE,
     other_negated |-> FALSE, self_content |-> NoString]

\* The Query objects shared before the callers start: a plain one and a
\* negated one.
SharedQueries ==
    <<construct("title", Scalar(StrTerm(<<"a">>))).query,
      __invert__(construct("category", Scalar(StrTerm(<<"a">>))).query)>>

\* The calls started so far, over all the callers of S.
RECURSIVE Started(_)
Started(S) ==
    IF S = {} THEN 0
    ELSE LET c == CHOOSE x \in S : TRUE
         IN callers[c].calls + Started(S \ {c})

IdleCallers ==
    LET IdleCaller ==
            [call |-> Caller("idle", "none", "none", Scalar(StrTerm(NoString)),
                             0, 0, NoString),
             calls |-> 0, done |-> FALSE, outcome |-> NoOutcome]
    IN  /\ heap = SharedQueries
        /\ callers = [c \in Callers |-> IdleCaller]

\* The right operand of & and |: a shared Query, or the Query built from
\* a str.
Operand(c) ==
    IF callers[c].call.other = 0
    THEN from_raw_string(callers[c].call.raw)
    ELSE heap[callers[c].call.other]

Step(c, pc) ==
    /\ callers[c].call.pc = pc
    /\ ~callers[c].done \/ pc = "idle"

\* The call goes on to its next read.
Continue(c, next, after) ==
    /\ callers' = [callers EXCEPT ![c].call = next]
    /\ heap' = after

\* The call returns or raises; a Query it returns is a new object, which
\* becomes shared.
Finish(c, out, after) ==
    /\ callers' = [callers EXCEPT
                       ![c].call.pc = "idle",
                       ![c].done = TRUE,
                       ![c].outcome = out]
    /\ heap' = IF out.err = "none" /\ callers[c].call.op # "to_string"
               THEN Append(after, out.query)
               ELSE after

OfQuery(r) == Outcome(r.err, r.query, NoString)
OfStr(r) == Outcome(r.err, NoQuery, r.text)

\* A caller starts self & other, self | other, ~self, or
\* self.to_string().
StartCall(c) ==
    LET CallerOps == {"and", "or", "invert", "to_string"}
    IN  /\ Step(c, "idle")
        /\ Started(Callers) < MaxCalls
        /\ \E op \in CallerOps, i \in DOMAIN heap, j \in 0..Len(heap),
              raw \in RawStrings :
               /\ op \in {"invert", "to_string"} => j = 0
               /\ callers' = [callers EXCEPT
                      ![c].calls = @ + 1,
                      ![c].done = FALSE,
                      ![c].outcome = NoOutcome,
                      ![c].call = Caller(IF op = "invert" THEN "content"
                                         ELSE "validate",
                                         op, "none", Scalar(StrTerm(NoString)),
                                         i, j,
                                         IF op \in {"and", "or"} /\ j = 0
                                         THEN raw ELSE NoString)]
        /\ heap' = heap
        /\ UNCHANGED <<pool, last, call, ret, article_id, parsed, rebuilt,
                       date_args, date_ret>>

\* A caller runs a field constructor: it reads no Query.
CallerConstruct(c) ==
    /\ Step(c, "idle")
    /\ Started(Callers) < MaxCalls
    /\ \E name \in AtomConstructors, value \in AtomValues :
           /\ heap' = IF construct(name, value).err = "none"
                      THEN Append(heap, construct(name, value).query)
                      ELSE heap
           /\ callers' = [callers EXCEPT
                  ![c].call = Caller("idle", "construct", name, value,
                                     0, 0, NoString),
                  ![c].calls = @ + 1,
                  ![c].done = TRUE,
                  ![c].outcome = OfQuery(construct(name, value))]
    /\ UNCHANGED <<pool, last, call, ret, article_id, parsed, rebuilt,
                   date_args, date_ret>>

\* self._validate_negation(): reads self.negated.
ValidateSelf(c) ==
    LET t == callers[c].call
        self == heap[t.self]
    IN /\ Step(c, "validate")
       /\ IF _validate_negation(self) # "none"
          THEN Finish(c, Outcome(_validate_negation(self), NoQuery,
                                 NoString), heap)
          ELSE Continue(c, [t EXCEPT
                                !.pc = IF t.op = "to_string" THEN "content"
                                       ELSE "operand",
                                !.self_negated = self.negated], heap)
       /\ UNCHANGED <<pool, last, call, ret, article_id, parsed, rebuilt,
                      date_args, date_ret>>

\* if other.negated: reads the flag of the operand; after is the heap the
\* read leaves.
ReadOtherNegated(c, after) ==
    LET t == callers[c].call
    IN /\ Step(c, "operand")
       /\ IF t.op = "or" /\ Operand(c).negated
          THEN Finish(c, Outcome("NoOrNot", NoQuery, NoString), after)
          ELSE Continue(c, [t EXCEPT !.pc = "content",
                                     !.other_negated = Operand(c).negated],
                        after)
       /\ UNCHANGED <<pool, last, call, ret, article_id, parsed, rebuilt,
                      date_args, date_ret>>

\* Fault: the combinator clears the negated flag of a shared operand once
\* it has read it.
ReadOperand_clearing_flag(c) ==
    ReadOtherNegated(c, IF callers[c].call.other = 0 THEN heap
                        ELSE [heap EXCEPT
                                  ![callers[c].call.other].negated = FALSE])

\* The read of other.negated writes nothing.
ReadOperand(c) == ReadOtherNegated(c, heap)

\* self.content is read: to_string returns it, the others go on.
ReadContent(c) ==
    LET t == callers[c].call
        content == heap[t.self].content
    IN /\ Step(c, "content")
       /\ IF t.op = "to_string"
          THEN Finish(c, OfStr(to_string(Query(content, t.self_negated))),
                      heap)
          ELSE Continue(c, [t EXCEPT
                                !.pc = IF t.op = "invert" THEN "negated"
                                       ELSE "other",
                                !.self_content = content], heap)
       /\ UNCHANGED <<pool, last, call, ret, article_id, parsed, rebuilt,
                      date_args, date_ret>>

\* other.content is read and & or | returns the Query rendered from what
\* the call has read.
ReadOtherContent(c) ==
    LET t == callers[c].call
        self == Query(t.self_content, t.self_negated)
        other == QueryArg(Query(Operand(c).content, t.other_negated))
    IN /\ Step(c, "other")
       /\ Finish(c, OfQuery(IF t.op = "and" THEN __and__(self, other)
                            ELSE __or__(self, other)), heap)
       /\ UNCHANGED <<pool, last, call, ret, article_id, parsed, rebuilt,
                      date_args, date_ret>>

\* not self.negated is read and ~ returns the new Query.
ReadNegated(c) ==
    LET t == callers[c].call
    IN /\ Step(c, "negated")
       /\ Finish(c, OfQuery(Returned(__invert__(
                     Query(t.self_content, heap[t.self].negated)))), heap)
       /\ UNCHANGED <<pool, last, call, ret, article_id, parsed, rebuilt,
                      date_args, date_ret>>

(***************************************************************************)
(* The specifications.                                                     *)
(***************************************************************************)
Init == IdleQuery /\ IdleField /\ IdleId /\ IdleDate /\ IdleCallers

Next ==
    \/ Construct
    \/ SubmittedDate
    \/ And
    \/ Or
    \/ AndStr
    \/ OrStr
    \/ RAnd
    \/ ROr
    \/ Invert
    \/ CallToString
    \/ CallStr

Spec == Init /\ [][Next]_vars

InitField ==
    /\ IdleQuery
    /\ IdleId
    /\ IdleDate
    /\ call \in FieldCalls
    /\ ret = NoReturn
    /\ IdleCallers

NextField == CallFromField \/ CallConstructor

SpecField == InitField /\ [][NextField]_vars

InitId ==
    /\ IdleQuery
    /\ IdleField
    /\ IdleDate
    /\ article_id \in ArticleIdInputs
    /\ parsed = NotParsed
    /\ rebuilt = NotRebuilt
    /\ IdleCallers

NextId == CallFromId \/ CallReconstructId \/ GetId

SpecId == InitId /\ [][NextId]_vars

InitDate ==
    /\ IdleQuery
    /\ IdleField
    /\ IdleId
    /\ date_args \in DateCalls
    /\ date_ret = NoDateReturn
    /\ IdleCallers

NextDate == CallSubmittedDate

SpecDate == InitDate /\ [][NextDate]_vars

NextCallers ==
    \/ \E c \in Callers : StartCall(c)
    \/ \E c \in Callers : CallerConstruct(c)
    \/ \E c \in Callers : ValidateSelf(c)
    \/ \E c \in Callers : ReadOperand(c)
    \/ \E c \in Callers : ReadContent(c)
    \/ \E c \in Callers : ReadOtherContent(c)
    \/ \E c \in Callers : ReadNegated(c)

SpecCallers == Init /\ [][NextCallers]_vars

(***************************************************************************)
(* Properties of the Query algebra, checked under Spec.                    *)
(***************************************************************************)
\* The operands of the last operation, as they are in the pool.
Left == pool[last.left]
Right == pool[last.right]

Parenthesized(a, word, b) ==
    <<"(">> \o a \o <<" ">> \o word \o <<" ">> \o b \o <<")">>

\* C2: for a non-negated a, a & b succeeds with the non-negated content
\* "(a ANDNOT b)" when b is negated and "(a AND b)" when it is not, a's
\* content before b's; the result is the new object of the pool.
C2_AndRendersAndOrAndnot ==
    (last.op = "and" /\ ~Left.negated) =>
        /\ last.err = "none"
        /\ ~last.query.negated
        /\ Right.negated =>
              last.query.content =
                  Parenthesized(Left.content, <<"A", "N", "D", "N", "O", "T">>,
                                Right.content)
        /\ ~Right.negated =>
              last.query.content =
                  Parenthesized(Left.content, <<"A", "N", "D">>, Right.content)
        /\ pool[Len(pool)] = last.query

C2_Witness ==
    /\ last.op = "and"
    /\ ~Left.negated
    /\ Right.negated
    /\ last.err = "none"
    /\ last.left # last.right

\* C3: to_string and str return exactly content when negated is false and
\* fail with the standalone-negation error, returning no string, when it is
\* true; both have the same outcome on the same Query.
C3_FinalizeReturnsContentOrFails ==
    (last.op \in {"to_string", "str"}) =>
        IF Left.negated
        THEN last.err = "StandaloneNegation" /\ last.text = NoString
        ELSE last.err = "none" /\ last.text = Left.content

C3_Witness ==
    /\ last.op = "str"
    /\ Left.negated
    /\ last.err = "StandaloneNegation"

\* C4: for a non-negated a, a | b fails with the no-ORNOT error and leaves
\* the pool as it was when b is negated; otherwise it returns the
\* non-negated "(a OR b)".
C4_OrRejectsNegatedOperand ==
    [][(last'.op = "or" /\ ~pool[last'.left].negated) =>
          IF pool[last'.right].negated
          THEN /\ last'.err = "NoOrNot"
               /\ last'.query = NoQuery
               /\ pool' = pool
          ELSE /\ last'.err = "none"
               /\ ~last'.query.negated
               /\ last'.query.content =
                      Parenthesized(pool[last'.left].content, <<"O", "R">>,
                                    pool[last'.right].content)
               /\ pool' = Append(pool, last'.query)]_vars

C4_Witness ==
    /\ last.op = "or"
    /\ ~Left.negated
    /\ Right.negated
    /\ last.err = "NoOrNot"

\* C5: a negated left operand of & or | always fails with the
\* standalone-negation error, whatever the right operand is (a Query,
\* negated or not, or a string), and no Query is produced.
C5_NegatedLeftOperandFails ==
    [][(/\ last'.op \in {"and", "or", "and_str", "or_str"}
        /\ pool[last'.left].negated) =>
          /\ last'.err = "StandaloneNegation"
          /\ last'.query = NoQuery
          /\ pool' = pool]_vars

C5_Witness ==
    /\ last.op = "or"
    /\ Left.negated
    /\ Right.negated
    /\ last.err = "StandaloneNegation"

\* C6: combining with a raw string s, on either side of & or |, gives the
\* same outcome as combining with Query.all(s).
C6_StringOperandIsAllField ==
    LET promoted == QueryArg(all(Scalar(StrTerm(last.raw))).query)
        expected ==
            CASE last.op = "and_str" -> __and__(Left, promoted)
              [] last.op = "or_str" -> __or__(Left, promoted)
              [] last.op = "rand" -> __and__(promoted.query, QueryArg(Right))
              [] last.op = "ror" -> __or__(promoted.query, QueryArg(Right))
    IN (last.op \in {"and_str", "or_str", "rand", "ror"}) =>
           /\ last.err = expected.err
           /\ last.query = expected.query

(***************************************************************************)
(* Properties of field construction, checked under SpecField.              *)
(***************************************************************************)
\* The quotable flag of the call: every named constructor but category
\* quotes.
Quotable == IF call.name = "from_field" THEN call.quote
            ELSE call.name # "category"

Items == call.value.items

HasForbidden(s) == \E i \in 1..Len(s) : s[i] \in {"\"", "(", ")"}

HasWhitespace(s) == \E i \in 1..Len(s) : s[i] \in Whitespace

\* More than one whitespace-separated token: whitespace with a
\* non-whitespace character somewhere on each side of it.
MultiToken(s) ==
    \E i, j, k \in 1..Len(s) :
        /\ i < j /\ j < k
        /\ s[i] \notin Whitespace
        /\ s[j] \in Whitespace
        /\ s[k] \notin Whitespace

Quoted(s) == <<"\"">> \o s \o <<"\"">>

\* The rendering of a valid term under a quotable field.
Rendering(term) ==
    IF MultiToken(str(term)) THEN Quoted(str(term)) ELSE str(term)

Content == ret.query.content

\* Where the prefix of the content ends: its first colon.
Colon == Min({i \in 1..Len(Content) : Content[i] = ":"})

Separator == IF call.value.kind = "list" THEN <<" ">>
             ELSE <<" ", "A", "N", "D", " ">>

\* Where the i-th term of a list or tuple starts in the content, less one.
RECURSIVE Offset(_)
Offset(i) ==
    IF i = 1 THEN Colon + 1
    ELSE Offset(i - 1) + Len(Rendering(Items[i - 1])) + Len(Separator)

Segment(from, len) == SubSeq(Content, from + 1, from + len)

\* C7 as stated: a forbidden character in the value, or in any element,
\* makes construction fail with the forbidden-character error, whatever
\* the quotable flag and the element's position.
C7_ForbiddenAlwaysForbiddenError ==
    (ret.done /\ \E i \in DOMAIN Items : HasForbidden(str(Items[i]))) =>
        /\ ret.err = "ForbiddenCharacter"
        /\ ret.query = NoQuery

\* C7: a forbidden character in the value, or in any element, makes
\* construction fail and return no Query; the error is the
\* forbidden-character error, unless the field is not quotable and an
\* element before the first offending one has more than one token, which
\* raises the unquotable-multi-term error first.
C7_ForbiddenFailsFirstErrorWins ==
    (ret.done /\ \E i \in DOMAIN Items : HasForbidden(str(Items[i]))) =>
        LET f == Min({i \in DOMAIN Items : HasForbidden(str(Items[i]))})
        IN /\ ret.query = NoQuery
           /\ ret.err =
                  IF ~Quotable /\ \E j \in 1..(f - 1) : MultiToken(str(Items[j]))
                  THEN "UnquotableMultiTerm"
                  ELSE "ForbiddenCharacter"

C7_Witness ==
    /\ ret.done
    /\ call.name = "category"
    /\ Len(Items) = 2
    /\ ~HasForbidden(str(Items[1]))
    /\ HasForbidden(str(Items[2]))
    /\ MultiToken(str(Items[2]))
    /\ ret.err = "ForbiddenCharacter"

\* C8 as stated: a scalar term that contains whitespace and no forbidden
\* character, under a quotable field, is rendered wrapped in one pair of
\* double quotes.
C8_WhitespaceTermQuoted ==
    (/\ ret.done
     /\ call.value.kind = "scalar"
     /\ Quotable
     /\ HasWhitespace(str(Items[1]))
     /\ ~HasForbidden(str(Items[1]))) =>
        /\ ret.err = "none"
        /\ Segment(Colon, Len(Content) - Colon) = Quoted(str(Items[1]))

\* C8: under a quotable field, a term with more than one
\* whitespace-separated token and no forbidden character is rendered
\* wrapped in exactly one pair of double quotes, as a scalar and as an
\* element of a list or tuple of such valid terms; a term whose whitespace
\* only leads or trails it is rendered unchanged, without quotes.
C8_MultiTokenTermQuoted ==
    (/\ ret.done
     /\ Quotable
     /\ \A i \in DOMAIN Items : ~HasForbidden(str(Items[i]))) =>
        /\ ret.err = "none"
        /\ call.value.kind = "scalar" =>
              Segment(Colon, Len(Content) - Colon) =
                  IF MultiToken(str(Items[1])) THEN Quoted(str(Items[1]))
                  ELSE str(Items[1])
        /\ call.value.kind # "scalar" =>
              \A i \in DOMAIN Items :
                  Segment(Offset(i), Len(Rendering(Items[i]))) =
                      IF MultiToken(str(Items[i])) THEN Quoted(str(Items[i]))
                      ELSE str(Items[i])
        /\ Cardinality({i \in 1..Len(Content) : Content[i] = "\""}) =
               2 * Cardinality({i \in DOMAIN Items : MultiToken(str(Items[i]))})

C8_Witness ==
    /\ ret.done
    /\ Quotable
    /\ call.value.kind = "tuple"
    /\ Len(Items) = 2
    /\ ~MultiToken(str(Items[1]))
    /\ MultiToken(str(Items[2]))
    /\ ~HasForbidden(str(Items[1]))
    /\ ~HasForbidden(str(Items[2]))
    /\ ret.err = "none"

ValidTerm(term) ==
    /\ ~HasForbidden(str(term))
    /\ Quotable \/ ~MultiToken(str(term))

\* C10: a list of valid terms renders prefix:(t1 t2 ... tn), the validated
\* terms in list order with one space between neighbours, and a tuple
\* renders prefix:(t1 AND t2 AND ... AND tn); nothing else is in the
\* content, and the result is not negated.
C10_ListAndTupleJoinInOrder ==
    (/\ ret.done
     /\ call.value.kind \in {"list", "tuple"}
     /\ \A i \in DOMAIN Items : ValidTerm(Items[i])) =>
        LET n == Len(Items)
            end == IF n = 0 THEN Colon + 1
                   ELSE Offset(n) + Len(Rendering(Items[n]))
        IN /\ ret.err = "none"
           /\ ~ret.query.negated
           /\ call.name = "from_field" =>
                  SubSeq(Content, 1, Colon - 1) = call.prefix
           /\ Content[Colon + 1] = "("
           /\ \A i \in 1..n :
                  Segment(Offset(i), Len(Rendering(Items[i]))) =
                      Rendering(Items[i])
           /\ \A i \in 1..(n - 1) :
                  Segment(Offset(i) + Len(Rendering(Items[i])),
                          Len(Separator)) =
                      IF call.value.kind = "list" THEN <<" ">>
                      ELSE <<" ", "A", "N", "D", " ">>
           /\ Len(Content) = end + 1
           /\ Content[end + 1] = ")"

C10_Witness ==
    /\ ret.done
    /\ call.value.kind = "list"
    /\ Len(Items) = 2
    /\ Items[1] # Items[2]
    /\ MultiToken(str(Items[1]))
    /\ ret.err = "none"

(***************************************************************************)
(* Properties of identifier parsing, checked under SpecId.                 *)
(***************************************************************************)
Record == parsed.result

\* The input is written the way _reconstruct_id writes identifiers: no
\* whitespace around it or after the prefix colon, a version number
\* without leading zeros, and a modern sequence number in the width of its
\* year (four digits before 2015, where a five-digit number keeps its
\* width only without a leading zero; five digits from 2015).
CanonicalInput ==
    LET s == article_id
        colons == {i \in 1..Len(s) : s[i] = ":"}
        body == IF colons = {} THEN 1 ELSE Min(colons) + 1
        digits == Len(s) - (body - 1) - Len(Record.base_id) - 1
        sequence_ == SubSeq(Record.base_id, 6, Len(Record.base_id))
    IN /\ s[1] \notin Whitespace
       /\ s[Len(s)] \notin Whitespace
       /\ s[body] \notin Whitespace
       /\ Record.version.some =>
              (digits = 1 \/ s[Len(s) - digits + 1] # "0")
       /\ ~Record.archive.some =>
              IF Record.year < 2015
              THEN Len(sequence_) = 4 \/ sequence_[1] # "0"
              ELSE Len(sequence_) = 5

\* C1 as stated: for every string from_id accepts, _reconstruct_id of the
\* record is the string itself.
C1_RoundTripEveryAccepted ==
    rebuilt.reconstructed.some => rebuilt.reconstructed.val = article_id

\* C1: for every string from_id accepts that is in canonical form,
\* _reconstruct_id of the record is the string itself.
C1_RoundTripCanonical ==
    (rebuilt.reconstructed.some /\ CanonicalInput) =>
        rebuilt.reconstructed.val = article_id

C1_Witness ==
    /\ rebuilt.reconstructed.some
    /\ CanonicalInput
    /\ Record.prefix.some
    /\ Record.version.some
    /\ ~Record.archive.some
    /\ Record.year < 2015
    /\ rebuilt.reconstructed.val = article_id

(***************************************************************************)
(* More properties of field construction, checked under SpecField.         *)
(***************************************************************************)
\* The prefix each named constructor is expected to write.
ExpectedPrefix ==
    [title |-> <<"t", "i">>, author |-> <<"a", "u">>,
     abstract |-> <<"a", "b", "s">>, comment |-> <<"c", "o">>,
     journal |-> <<"j", "r">>, report |-> <<"r", "n">>,
     category |-> <<"c", "a", "t">>, all |-> <<"a", "l", "l">>]

\* C11: for a scalar term without quotes, parentheses or whitespace, each
\* of title, author, abstract, comment, journal, report, category and all
\* returns the non-negated content "<prefix>:" + term, without
\* parentheses.
C11_ScalarRendersPrefixColonTerm ==
    (/\ ret.done
     /\ call.name \in DOMAIN ExpectedPrefix
     /\ call.value.kind = "scalar"
     /\ ~HasForbidden(str(Items[1]))
     /\ ~HasWhitespace(str(Items[1]))) =>
        /\ ret.err = "none"
        /\ ~ret.query.negated
        /\ Content = ExpectedPrefix[call.name] \o <<":">> \o str(Items[1])

C11_Witness ==
    /\ ret.done
    /\ call.name = "report"
    /\ call.value.kind = "scalar"
    /\ Items[1].t = "int"
    /\ Items[1].n < 0
    /\ ret.err = "none"

(***************************************************************************)
(* More properties of identifier parsing, checked under SpecId.            *)
(***************************************************************************)
\* The two-digit month field of the input: the two characters before the
\* first "." of a modern identifier, or the third and fourth characters
\* after the first "/" of a legacy one; absent when they are not digits.
MonthField ==
    LET s == article_id
        slashes == {i \in 1..Len(s) : s[i] = "/"}
        dots == {i \in 1..Len(s) : s[i] = "."}
        at == IF slashes # {} THEN Min(slashes) + 3
              ELSE IF dots # {} THEN Min(dots) - 2
              ELSE 0
    IN IF at >= 1 /\ at + 1 <= Len(s) /\ AllDigits(SubSeq(s, at, at + 1))
       THEN Some(int(SubSeq(s, at, at + 1)))
       ELSE None

\* C15: from_id fails with the invalid-identifier error, returning no
\* record, whenever the month field of the identifier is outside 01..12,
\* in the modern and in the legacy format; every record it returns has
\* 1 <= month <= 12.
C15_MonthOutsideRangeFails ==
    parsed.done =>
        /\ (MonthField.some /\ MonthField.val \notin 1..12) =>
               Record.err = "InvalidIdentifier"
        /\ Record.err = "none" => Record.month \in 1..12

C15_Witness ==
    /\ parsed.done
    /\ MonthField = Some(13)
    /\ \E i \in 1..Len(article_id) : article_id[i] = "/"
    /\ Record.err = "InvalidIdentifier"
    /\ Record.msg = "month"

\* C16 as stated: every failure of from_id carries the raw input exactly
\* as it was passed.
C16_EveryErrorCarriesRawInput ==
    (parsed.done /\ Record.err # "none") =>
        /\ Record.err = "InvalidIdentifier"
        /\ Record.carried = article_id

\* The identifier body of the input: what is left of it once surrounding
\* whitespace, the prefix up to the first colon with the whitespace after
\* it, and the shortest-possible-body version suffix are taken away.
IsBodyOf(body, s) ==
    \E i \in 1..Len(s) : \E j \in i..Len(s) :
        LET head == SubSeq(s, 1, i - 1)
            rest == strip(SubSeq(s, j + 1, Len(s)))
            colons == {p \in 1..Len(s) : s[p] = ":"}
        IN /\ body = SubSeq(s, i, j)
           /\ s[i] \notin Whitespace
           /\ IF colons = {}
              THEN \A p \in 1..(i - 1) : s[p] \in Whitespace
              ELSE /\ Min(colons) < i
                   /\ \A p \in (Min(colons) + 1)..(i - 1) : s[p] \in Whitespace
           /\ rest = <<>> \/ IsVersion(rest)
           /\ \A k \in i..(j - 1) :
                  ~IsVersion(strip(SubSeq(s, k + 1, Len(s))))
           /\ rest = <<>> => s[j] \notin Whitespace

\* C16: every failure of from_id is an invalid-identifier error; the one
\* detected at version splitting carries the raw input exactly as it was
\* passed, the ones detected at legacy or modern parsing (an out-of-range
\* month included) carry the identifier body, without the prefix, the
\* version suffix and the surrounding whitespace.
C16_ErrorCarriesRawInputOrBody ==
    (parsed.done /\ Record.err # "none") =>
        /\ Record.err = "InvalidIdentifier"
        /\ Record.msg = "format" => Record.carried = article_id
        /\ Record.msg # "format" => IsBodyOf(Record.carried, article_id)

C16_Witness ==
    /\ parsed.done
    /\ Record.err = "InvalidIdentifier"
    /\ Record.msg = "format"
    /\ Len(article_id) = 2 * MaxPad
    /\ Len(article_id) > 0

\* C17 as stated: for every accepted string, the id property is the input
\* with surrounding whitespace trimmed.
C17_IdIsTrimmedInput ==
    rebuilt.id.some => rebuilt.id.val = strip(article_id)

\* The trimmed input has no whitespace directly after the prefix colon
\* and its version number has no leading zero.
PlainInput ==
    LET s == strip(article_id)
        colons == {i \in 1..Len(s) : s[i] = ":"}
        body == IF colons = {} THEN 1 ELSE Min(colons) + 1
        digits == Len(s) - (body - 1) - Len(Record.base_id) - 1
    IN /\ s[body] \notin Whitespace
       /\ Record.version.some =>
              (digits = 1 \/ s[Len(s) - digits + 1] # "0")

\* C17: for every accepted string without whitespace directly after the
\* prefix colon and without leading zeros in its version number, the id
\* property is the input with surrounding whitespace trimmed.
C17_IdIsTrimmedPlainInput ==
    (rebuilt.id.some /\ PlainInput) => rebuilt.id.val = strip(article_id)

C17_Witness ==
    /\ rebuilt.id.some
    /\ PlainInput
    /\ Record.prefix.some
    /\ Record.version = Some(12)
    /\ article_id # strip(article_id)
    /\ Record.archive.some

\* C18: in every record from_id returns, version is absent or a positive
\* integer.
C18_VersionAbsentOrPositive ==
    (parsed.done /\ Record.err = "none" /\ Record.version.some) =>
        Record.version.val >= 1

(***************************************************************************)
(* Frame and negation properties of the Query algebra, checked under Spec. *)
(***************************************************************************)
Combinators ==
    {"and", "or", "and_str", "or_str", "rand", "ror", "invert"}

Finalizers == {"to_string", "str"}

\* C19: no operation writes an existing Query: across every step of &, |,
\* ~, str() and to_string(), succeeding or failing, every object of the
\* pool keeps its content and negated flag (the right operand of a & ~b
\* stays negated); a successful combinator adds its result as a new object
\* and a failing one adds nothing; finalizing the same Query twice in a
\* row gives the same outcome.
C19_NoOperationMutatesAQuery ==
    [][/\ \A i \in DOMAIN pool : i \in DOMAIN pool' /\ pool'[i] = pool[i]
       /\ (last'.op \in Combinators /\ last'.err = "none") =>
              pool' = Append(pool, last'.query)
       /\ (last'.op \in Combinators /\ last'.err # "none") => pool' = pool
       /\ last'.op \in Finalizers => pool' = pool
       /\ (last.op \in Finalizers /\ last'.op \in Finalizers
              /\ last'.left = last.left) =>
              (last'.text = last.text /\ last'.err = last.err)]_vars

C19_Witness ==
    /\ last.op = "and"
    /\ last.err = "none"
    /\ Right.negated
    /\ ~Left.negated
    /\ Len(pool) = MaxQueries

\* C20: ~q never fails and returns a new Query with q's content and the
\* opposite negated flag; so ~~q has q's content and flag, finalizes as q
\* does, and a & ~~b is what a & b is.
C20_InvertFlipsNegated ==
    /\ last.op = "invert" =>
           /\ last.err = "none"
           /\ last.query.content = Left.content
           /\ last.query.negated = ~Left.negated
           /\ pool[Len(pool)] = last.query
           /\ Len(pool) > last.left
    /\ \A i \in DOMAIN pool :
           LET twice == __invert__(__invert__(pool[i]))
           IN /\ twice = pool[i]
              /\ to_string(twice) = to_string(pool[i])
              /\ \A j \in DOMAIN pool :
                     __and__(pool[j], QueryArg(twice))
                         = __and__(pool[j], QueryArg(pool[i]))

C20_Witness ==
    /\ last.op = "invert"
    /\ Left.negated
    /\ ~last.query.negated
    /\ to_string(last.query) = ReturnedStr(<<"t", "i", ":", "a">>)

(***************************************************************************)
(* Properties of submitted_date, checked under SpecDate.                   *)
(***************************************************************************)
Start == date_args.start
End == date_args.end

\* YYYYMMDDHHMM of a calendar date and a time of day.
Stamp12(year, month, day, hour, minute) ==
    zero_pad(year, 4) \o zero_pad(month, 2) \o zero_pad(day, 2)
    \o zero_pad(hour, 2) \o zero_pad(minute, 2)

\* The datetime bound as UTC wall-clock time.
InUtc(b) == IF b.utcoffset.some THEN astimezone_utc(b).value ELSE b

\* The twelve-digit stamp expected of a bound that is absent, a date or a
\* datetime.
ExpectedStamp(b, absent) ==
    IF b.type = "None" THEN absent
    ELSE IF b.type = "date" THEN Stamp12(b.year, b.month, b.day, 0, 0)
    ELSE Stamp12(InUtc(b).year, InUtc(b).month, InUtc(b).day, InUtc(b).hour,
                 InUtc(b).minute)

RangeOpen == <<"s", "u", "b", "m", "i", "t", "t", "e", "d", "D", "a", "t", "e", ":", "[">>

RangeTo == <<" ", "T", "O", " ">>

\* C12: for bounds that are absent, dates or datetimes, submitted_date
\* returns the non-negated content submittedDate:[S TO E], each bound
\* rendered on its own: a date as YYYYMMDD0000, a naive datetime as
\* YYYYMMDDHHMM without its seconds, an aware datetime the same way after
\* conversion to UTC, an absent start as 100001010000 and an absent end as
\* 900001010000.
C12_BoundsRenderedAsStamps ==
    (/\ date_ret.done
     /\ Start.type \in {"None", "date", "datetime"}
     /\ End.type \in {"None", "date", "datetime"}) =>
        /\ date_ret.err = "none"
        /\ ~date_ret.query.negated
        /\ date_ret.query.content =
               RangeOpen \o ExpectedStamp(Start, <<"1", "0", "0", "0", "0", "1", "0", "1", "0", "0", "0", "0">>)
               \o RangeTo \o ExpectedStamp(End, <<"9", "0", "0", "0", "0", "1", "0", "1", "0", "0", "0", "0">>)
               \o <<"]">>

\* The two bounds as they stand in the returned content: the text between
\* "submittedDate:[" and the first space, and the text between " TO " and
\* the closing bracket.
Rendered ==
    LET c == date_ret.query.content
        space == Min({i \in 1..Len(c) : c[i] = " "})
    IN [start |-> SubSeq(c, Len(RangeOpen) + 1, space - 1),
        end |-> SubSeq(c, space + Len(RangeTo), Len(c) - 1)]

WellFormedRange ==
    LET c == date_ret.query.content
    IN /\ Len(c) > Len(RangeOpen) + Len(RangeTo)
       /\ SubSeq(c, 1, Len(RangeOpen)) = RangeOpen
       /\ c[Len(c)] = "]"
       /\ \E i \in 1..Len(c) : c[i] = " "
       /\ c = RangeOpen \o Rendered.start \o RangeTo \o Rendered.end
                \o <<"]">>

\* C13 as stated: in every expression submitted_date returns, each of the
\* two bounds is exactly 12 digits.
C13_BothBoundsTwelveDigits ==
    (date_ret.done /\ date_ret.err = "none") =>
        /\ WellFormedRange
        /\ AllDigits(Rendered.start) /\ Len(Rendered.start) = 12
        /\ AllDigits(Rendered.end) /\ Len(Rendered.end) = 12

\* What holds of a bound as rendered: digits only; 12 of them for an
\* absent bound and for a date or datetime whose year, in UTC, is 1000 or
\* later, and 9 to 12 below that; a string bound is rendered as it was
\* given, with its 4 to 14 digits.
BoundRendering(b, text) ==
    /\ AllDigits(text)
    /\ b.type = "None" => Len(text) = 12
    /\ b.type = "str" => (text = b.text /\ Len(text) \in 4..14)
    /\ b.type = "date" =>
           IF b.year >= 1000 THEN Len(text) = 12 ELSE Len(text) \in 9..12
    /\ b.type = "datetime" =>
           IF InUtc(b).year >= 1000 THEN Len(text) = 12
           ELSE Len(text) \in 9..12

\* C13: every expression submitted_date returns has the form
\* submittedDate:[S TO E] with S and E digits only; a bound that is
\* absent, or a date or datetime with a four-digit year, is exactly 12
\* digits, and a digit-string bound is rendered verbatim, with the 4 to 14
\* digits it was given with.
C13_BoundsAreDigitStamps ==
    (date_ret.done /\ date_ret.err = "none") =>
        /\ WellFormedRange
        /\ ~date_ret.query.negated
        /\ BoundRendering(Start, Rendered.start)
        /\ BoundRendering(End, Rendered.end)

C13_Witness ==
    /\ date_ret.done
    /\ date_ret.err = "none"
    /\ Start.type = "str"
    /\ Len(Start.text) = 14
    /\ End.type = "datetime"
    /\ End.utcoffset.some
    /\ Len(Rendered.end) = 12

\* The string read as a truncated YYYYMMDDHHMMSS timestamp: every field
\* it holds in full names a real date and time (a last odd digit, the
\* start of a field, is not judged).
RealTruncatedTimestamp(s) ==
    LET field(i, default) ==
            IF Len(s) >= 2 * i + 2 THEN int(SubSeq(s, 2 * i + 1, 2 * i + 2))
            ELSE default
    IN ValidDateTime(int(SubSeq(s, 1, 4)), field(2, 1), field(3, 1),
                     field(4, 0), field(5, 0), field(6, 0))

AcceptableStamp(s) ==
    /\ AllDigits(s)
    /\ Len(s) \in 4..14
    /\ RealTruncatedTimestamp(s)

\* C14: a string bound is accepted only if it has 4 to 14 digits and, read
\* as a truncated YYYYMMDDHHMMSS timestamp, forms a real date and time;
\* every other string (non-digits, fewer than 4 or more than 14 digits,
\* month 00 or 13, a day not in the month, an hour above 23, a minute
\* above 59) fails with the invalid-date error and returns no expression.
C14_OnlyRealTimestampsAccepted ==
    (date_ret.done /\ Start.type = "str") =>
        /\ date_ret.err = "none" => AcceptableStamp(Start.text)
        /\ ~AcceptableStamp(Start.text) =>
               (date_ret.err = "InvalidDateString"
                   /\ date_ret.query = NoQuery)

(***************************************************************************)
(* The parsing steps of from_id one by one, checked under SpecId.          *)
(***************************************************************************)
\* s without the whitespace around it: the part from its first to its
\* last character that is not whitespace.
Trimmed(s) ==
    LET solid == {i \in 1..Len(s) : s[i] \notin Whitespace}
        first == CHOOSE i \in solid : \A j \in 1..(i - 1) : j \notin solid
        final == CHOOSE i \in solid : \A j \in (i + 1)..Len(s) : j \notin solid
    IN IF solid = {} THEN <<>> ELSE SubSeq(s, first, final)

FirstColon(s) == Min({i \in 1..Len(s) : s[i] = ":"})

HasColon(s) == \E i \in 1..Len(s) : s[i] = ":"

\* The identifier body of a raw input: the trimmed input, or the trimmed
\* part after its first colon.
BodyOf(raw) ==
    LET t == Trimmed(raw)
    IN IF HasColon(t)
       THEN Trimmed(SubSeq(t, FirstColon(t) + 1, Len(t)))
       ELSE t

\* The string a parser was given: the base_id of the record, or the
\* string the parser's error carries.
Base == IF Record.err = "none" THEN Record.base_id ELSE Record.carried

Suffix(s, k) == [i \in 1..(Len(s) - k) |-> s[k + i]]

VersionText(s) ==
    /\ Len(s) >= 2
    /\ s[1] = "v"
    /\ \A i \in 2..Len(s) : s[i] \in Digits

\* C24: from_id splits the body so that base_id is its shortest non-empty
\* leading part whose remainder is empty or "v" and one or more digits;
\* version is the integer those digits write, and is absent exactly when
\* the remainder is empty.
C24_BaseIdIsShortestBeforeVersion ==
    (parsed.done /\ Record.msg # "format") =>
        LET body == BodyOf(article_id)
            k == Len(Base)
            rest == Suffix(body, k)
        IN /\ k >= 1
           /\ k <= Len(body)
           /\ Base = [i \in 1..k |-> body[i]]
           /\ rest = <<>> \/ VersionText(rest)
           /\ \A j \in 1..(k - 1) : ~VersionText(Suffix(body, j))
           /\ Record.err = "none" =>
                  /\ Record.version.some <=> rest # <<>>
                  /\ Record.version.some =>
                         Record.version.val = int(Tail(rest))

C24_Witness ==
    /\ parsed.done
    /\ Record.err = "none"
    /\ Record.version = Some(12)
    /\ Record.archive = Some(<<"s", "o", "l", "v", "-", "i", "n", "t">>)
    /\ Len(Base) + 3 = Len(BodyOf(article_id))

\* C25: from_id trims the input; with a colon in it, the part before the
\* first colon is the prefix and the trimmed part after it is the body;
\* without one the prefix is absent and the trimmed input is the body.
\* So the input with more or less whitespace around it gives an equal
\* record.
C25_TrimThenSplitAtFirstColon ==
    (parsed.done /\ Record.err = "none") =>
        LET t == Trimmed(article_id)
        IN /\ Record.prefix =
                  IF HasColon(t)
                  THEN Some([i \in 1..(FirstColon(t) - 1) |-> t[i]])
                  ELSE NoneStr
           /\ Len(Record.base_id) <= Len(BodyOf(article_id))
           /\ Record.base_id =
                  [i \in 1..Len(Record.base_id) |-> BodyOf(article_id)[i]]
           /\ from_id(t) = Record
           /\ \A l \in Pads, r \in Pads : from_id(l \o t \o r) = Record
           /\ from_id(<<"\t", " ">> \o t \o <<"\n">>) = Record

C25_Witness ==
    /\ parsed.done
    /\ Record.err = "none"
    /\ Record.prefix = Some(<<"a", "r", "X", "i", "v">>)
    /\ article_id[1] \in Whitespace
    /\ article_id[Len(article_id)] \in Whitespace
    /\ article_id[FirstColon(article_id) + 1] \in Whitespace

HasSlash(s) == \E i \in 1..Len(s) : s[i] = "/"

\* A category part, one "/", and exactly seven digits.
LegacyShape(s) ==
    /\ Len(s) >= 9
    /\ s[Len(s) - 7] = "/"
    /\ \A i \in 1..(Len(s) - 8) : s[i] \in CategoryChars
    /\ \A i \in (Len(s) - 6)..Len(s) : s[i] \in Digits

TwoDigitsAt(s, i) == int(<<s[i], s[i + 1]>>)

\* C26: a base_id with "/" is parsed as legacy only if it is a category
\* part, one "/" and seven digits YYMMNNN; then year is 1900+YY from YY 90
\* and 2000+YY below, month is MM, number is NNN; the category part is
\* split at its first "." into archive and subject, subject is absent
\* without a ".", archive is always present.  Any other shape fails with
\* the invalid-identifier error.
C26_LegacyFields ==
    (parsed.done /\ Record.msg # "format" /\ HasSlash(Base)) =>
        /\ ~LegacyShape(Base) => Record.err = "InvalidIdentifier"
        /\ Record.err = "none" =>
               LET n == Len(Base)
                   yy == TwoDigitsAt(Base, n - 6)
                   cat == [i \in 1..(n - 8) |-> Base[i]]
                   dots == {i \in 1..Len(cat) : cat[i] = "."}
               IN /\ LegacyShape(Base)
                  /\ Record.year = IF yy >= 90 THEN 1900 + yy ELSE 2000 + yy
                  /\ Record.month = TwoDigitsAt(Base, n - 4)
                  /\ Record.number =
                         int(<<Base[n - 2], Base[n - 1], Base[n]>>)
                  /\ Record.number \in 0..999
                  /\ Record.archive.some
                  /\ IF dots = {}
                     THEN Record.archive.val = cat /\ ~Record.subject.some
                     ELSE /\ Record.archive.val
                                = [i \in 1..(Min(dots) - 1) |-> cat[i]]
                          /\ Record.subject
                                = Some(Suffix(cat, Min(dots)))

C26_Witness ==
    /\ parsed.done
    /\ Record.err = "none"
    /\ Record.year = 1991
    /\ Record.archive = Some(<<"a">>)
    /\ Record.subject = Some(<<"b", ".", "c">>)

\* Four digits, a ".", and four or five digits.
ModernShape(s) ==
    /\ Len(s) \in {9, 10}
    /\ s[5] = "."
    /\ \A i \in (1..Len(s)) \ {5} : s[i] \in Digits

\* C27: a base_id without "/" is accepted as modern exactly if it is four
\* digits, a "." and four or five digits, with month 01..12; the record
\* has year 2000+YY, month MM, the sequence digits' value as number, and
\* neither archive nor subject.  Every other base_id without "/" fails
\* with the invalid-identifier error.
C27_ModernFields ==
    (parsed.done /\ Record.msg # "format" /\ ~HasSlash(Base)) =>
        LET accepted == /\ ModernShape(Base)
                        /\ TwoDigitsAt(Base, 3) \in 1..12
        IN /\ Record.err = "none" <=> accepted
           /\ ~accepted => Record.err = "InvalidIdentifier"
           /\ Record.err = "none" =>
                  /\ Record.year = 2000 + TwoDigitsAt(Base, 1)
                  /\ Record.month = TwoDigitsAt(Base, 3)
                  /\ Record.number = int(Suffix(Base, 5))
                  /\ ~Record.archive.some
                  /\ ~Record.subject.some

C27_Witness ==
    /\ parsed.done
    /\ Record.err = "none"
    /\ ~HasSlash(Base)
    /\ Len(Base) = 9
    /\ Record.number = 8770
    /\ Record.month = 12

\* n as at least width digits, zero-padded.
Padded(n, width) ==
    LET digits == str_nat(n)
    IN [i \in 1..(width - Len(digits)) |-> "0"] \o digits

\* The text _reconstruct_id puts around the base.
Around(base) ==
    (IF Record.prefix.some THEN Record.prefix.val \o <<":">> ELSE <<>>)
    \o base
    \o (IF Record.version.some THEN <<"v">> \o str_nat(Record.version.val)
        ELSE <<>>)

ModernBase(width) ==
    Padded(Record.year % 100, 2) \o Padded(Record.month, 2) \o <<".">>
    \o Padded(Record.number, width)

C22_IdWarnsOnceAndBuildsIdField ==
    (ret.done /\ call.name = "id") =>
        /\ Len(ret.warned) = 1
        /\ ret.err = from_field(call.value, <<"i", "d">>, TRUE).err
        /\ ret.query = from_field(call.value, <<"i", "d">>, TRUE).query
        /\ ret.err \in {"none", "ForbiddenCharacter"}
        /\ (/\ call.value.kind = "scalar"
            /\ ~HasForbidden(str(Items[1]))
            /\ ~HasWhitespace(str(Items[1]))) =>
               /\ ret.err = "none"
               /\ to_string(ret.query)
                      = ReturnedStr(<<"i", "d", ":">> \o str(Items[1]))

C22_Witness ==
    /\ ret.done
    /\ call.name = "id"
    /\ ret.warned # <<>>
    /\ call.value.kind = "scalar"
    /\ Content = <<"i", "d", ":", "4", "2">>

(***************************************************************************)
(* Where negation and parentheses come from, checked under Spec.           *)
(***************************************************************************)
\* The operations that return a Query other than by negation.
Producers ==
    AtomConstructors
        \cup {"submitted_date", "and", "or", "and_str", "or_str", "rand",
              "ror"}

\* C29: every Query a field constructor, submitted_date, a raw-string
\* promotion, & or | returns is non-negated; a negated Query joins the
\* pool only as the result of ~ on a non-negated one; so the result of a
\* successful & or | finalizes, and combines further as a left operand,
\* without a standalone-negation error.
C29_NegationOnlyFromInvert ==
    [][/\ (last'.op \in Producers /\ last'.err = "none") =>
              /\ ~last'.query.negated
              /\ to_string(last'.query).err = "none"
              /\ \A i \in DOMAIN pool :
                     /\ __and__(last'.query, QueryArg(pool[i])).err = "none"
                     /\ __or__(last'.query, QueryArg(pool[i])).err
                            # "StandaloneNegation"
       /\ \A raw \in RawStrings : ~from_raw_string(raw).negated
       /\ (Len(pool') > Len(pool) /\ pool'[Len(pool')].negated) =>
              /\ last'.op = "invert"
              /\ ~pool[last'.left].negated]_vars

C29_Witness ==
    /\ last.op = "and"
    /\ last.err = "none"
    /\ ~Right.negated
    /\ Left.content = <<"(", "t", "i", ":", "a", " ", "O", "R", " ",
                        "t", "i", ":", "a", ")">>

Count(s, chars) == Cardinality({i \in 1..Len(s) : s[i] \in chars})

\* No prefix of s closes more parentheses than it opened, and s closes all
\* it opened.
Balanced(s) ==
    /\ Count(s, {"("}) = Count(s, {")"})
    /\ \A k \in 1..Len(s) :
           Count(SubSeq(s, 1, k), {"("}) >= Count(SubSeq(s, 1, k), {")"})

WellQuoted(s) == Count(s, {"\""}) % 2 = 0

\* C30: every Query built from the named constructors, submitted_date and
\* the operators has balanced parentheses and an even number of double
\* quotes in its content; each & and | over two Query operands encloses
\* them in exactly one new pair of parentheses.  (The raw-string operands
\* of this model are plain words.)
C30_ParenthesesBalanced ==
    /\ \A i \in DOMAIN pool :
           Balanced(pool[i].content) /\ WellQuoted(pool[i].content)
    /\ \A name \in Constructors :
           \A value \in {List(<<StrTerm(<<"a">>), StrTerm(a_b)>>),
                         Tuple(<<StrTerm(a_b), IntTerm(42)>>)} :
               construct(name, value).err = "none" =>
                   /\ Balanced(construct(name, value).query.content)
                   /\ WellQuoted(construct(name, value).query.content)
    /\ (last.op \in {"and", "or"} /\ last.err = "none") =>
           LET c == last.query.content
               inner == SubSeq(c, 2, Len(c) - 1)
           IN /\ c[1] = "("
              /\ c[Len(c)] = ")"
              /\ Count(c, {"("})
                     = Count(Left.content, {"("})
                           + Count(Right.content, {"("}) + 1
              /\ Count(c, {")"})
                     = Count(Left.content, {")"})
                           + Count(Right.content, {")"}) + 1
              /\ SubSeq(inner, 1, Len(Left.content)) = Left.content
              /\ SubSeq(inner, Len(inner) - Len(Right.content) + 1,
                        Len(inner)) = Right.content
              /\ Balanced(inner)

C30_Witness ==
    /\ last.op = "or"
    /\ last.err = "none"
    /\ Count(last.query.content, {"("}) = 1
    /\ Count(last.query.content, {"\""}) = 2
    /\ Count(Right.content, {"["}) = 1

(***************************************************************************)
(* The archives of Taxonomy as category terms, checked under SpecField.    *)
(***************************************************************************)
\* The string expected of each archive: "<archive>.*", and no dot for
\* astro-ph, cond-mat and q-bio.
ExpectedArchive ==
    [cs |-> <<"c", "s", ".", "*">>,
     stat |-> <<"s", "t", "a", "t", ".", "*">>,
     math |-> <<"m", "a", "t", "h", ".", "*">>,
     econ |-> <<"e", "c", "o", "n", ".", "*">>,
     eess |-> <<"e", "e", "s", "s", ".", "*">>,
     q_fin |-> <<"q", "-", "f", "i", "n", ".", "*">>,
     physics |-> <<"p", "h", "y", "s", "i", "c", "s", ".", "*">>,
     nlin |-> <<"n", "l", "i", "n", ".", "*">>,
     astro_ph |-> <<"a", "s", "t", "r", "o", "-", "p", "h", "*">>,
     cond_mat |-> <<"c", "o", "n", "d", "-", "m", "a", "t", "*">>,
     q_bio |-> <<"q", "-", "b", "i", "o", "*">>]

\* C23: every multi-category archive of Taxonomy stringifies to
\* "<archive>.*", except astro-ph, cond-mat and q-bio, which stringify
\* without the dot; Query.category(archive) renders "cat:" and that
\* string.
C23_ArchivesRenderWildcard ==
    /\ DOMAIN Taxonomy = DOMAIN ExpectedArchive
    /\ (/\ ret.done
        /\ call.name = "category"
        /\ call.value.kind = "scalar"
        /\ Items[1].t = "archive") =>
           /\ str(Items[1]) = ExpectedArchive[Items[1].s[1]]
           /\ ret.err = "none"
           /\ Content = <<"c", "a", "t", ":">>
                            \o ExpectedArchive[Items[1].s[1]]

(***************************************************************************)
(* Concurrent callers, checked under SpecCallers.                          *)
(***************************************************************************)
\* What the call t returns when its caller runs alone over the shared
\* Query objects h.
Alone(t, h) ==
    LET other == IF t.other = 0 THEN StrArg(t.raw) ELSE QueryArg(h[t.other])
    IN CASE t.op = "construct" -> OfQuery(construct(t.name, t.value))
         [] t.op = "and" -> OfQuery(__and__(h[t.self], other))
         [] t.op = "or" -> OfQuery(__or__(h[t.self], other))
         [] t.op = "invert" -> OfQuery(Returned(__invert__(h[t.self])))
         [] t.op = "to_string" -> OfStr(to_string(h[t.self]))

\* C21: under every interleaving of the callers' field constructors, &,
\* |, ~ and finalizations over shared Query objects, no step writes a
\* shared Query, and every finished call has the outcome (Query, string
\* or error) it has when its caller runs alone.
C21_CallersGetSequentialResults ==
    [][/\ \A i \in DOMAIN heap : i \in DOMAIN heap' /\ heap'[i] = heap[i]
       /\ \A c \in Callers :
              callers'[c].done =>
                  callers'[c].outcome = Alone(callers'[c].call, heap')]_vars

\* One caller has obtained (title & ~category) while the other is in the
\* middle of its own & over the same shared negated Query.
C21_Witness ==
    /\ callers["c1"].done
    /\ callers["c1"].call.op = "and"
    /\ callers["c1"].call.other # 0
    /\ heap[callers["c1"].call.other].negated
    /\ callers["c1"].outcome.err = "none"
    /\ callers["c1"].outcome.query.content
           = <<"(", "t", "i", ":", "a", " ", "A", "N", "D", "N", "O", "T",
               " ", "c", "a", "t", ":", "a", ")">>
    /\ callers["c2"].call.pc = "other"
    /\ callers["c2"].call.op = "and"
    /\ callers["c2"].call.other = callers["c1"].call.other
    /\ callers["c2"].call.other_negated

====
